---- MODULE Spec2Model ----
(***************************************************************************)
(* One BUY or SELL invocation of the token activity bot: the entry points  *)
(* (src/actions/buy.js, src/actions/sell.js), the trade flows              *)
(* (src/services/trading.js) and the chain helpers they call               *)
(* (src/services/blockchain.js).  The chain, the quoter, the router and    *)
(* the price feed are the environment: every await on them is one action   *)
(* whose result is chosen from a small set.                                *)
(***************************************************************************)
EXTENDS Integers, Sequences, FiniteSets, TLC

\* ------------------------------------------------------------------ bounds
\* Quoter outputs are 0..MaxAmount and LargeAmount.
MaxAmount == 2
LargeAmount == 1000
\* A SELL reads a token balance in 0..MaxBalance.
MaxBalance == 2
\* Math.random() yields k / RandomSteps, k in 0..RandomSteps-1.
RandomSteps == 2000
\* Smallest units per whole base unit (stands for the 10^18 of parseEther).
EthUnit == 30000
\* Bits in the significand of a Number (stands for the 53 of a double; with
\* EthUnit it keeps 2^53 / 10^18, about 1 / 111, at 1 / 117).
MantissaBits == 8
\* calculateMinOutput on its own is tried with 0..MaxExpected, LargeAmount
\* and 10 * LargeAmount.
MaxExpected == 12

\* --------------------------------------------------------------- constants
POOL_FEE_TIERS == <<3000, 10000, 500>>
MIN_BUY_AMOUNT_USD == 1
MAX_BUY_AMOUNT_USD == 10
SLIPPAGE_TOLERANCE_PERCENT == 5
MAX_RETRY_ATTEMPTS == 3
RETRY_BASE_DELAY_MS == 2000
RETRY_BACKOFF_MULTIPLIER == 2
FALLBACK_ETH_PRICE == 3000
BASE_CHAIN_ID == 8453
NETWORK_MISMATCH == 2002
CONNECTION_TIMEOUT_MS == 10000
MAX_GAS_PRICE_GWEI == 50
TX_DEADLINE_MINUTES == 20
DEFAULT_CONFIRMATION_TIMEOUT_MS == 120000

\* ERROR_CODES (constants.js:225-253); NoCode is a plain Error's missing code.
NoCode == 0
MISSING_ENV_VAR == 1002
INVALID_ADDRESS == 1003
INVALID_PRIVATE_KEY == 1004
RPC_CONNECTION_FAILED == 2001
INSUFFICIENT_BALANCE == 3001
TX_FAILED == 3003
TX_REVERTED == 3004
TOKEN_NOT_FOUND == 4001
NO_LIQUIDITY == 4003

\* ------------------------------------------------------------------ strings
\* blockchain.js:323-330: the fatal substrings, each spelled out as its sequence
\* of characters (TLC cannot take a TLA+ string apart).
nonRetryableMessages ==
  << <<"i", "n", "s", "u", "f", "f", "i", "c", "i", "e", "n", "t", " ", "f", "u", "n", "d", "s">>,
     <<"n", "o", "n", "c", "e", " ", "t", "o", "o", " ", "l", "o", "w">>,
     <<"r", "e", "p", "l", "a", "c", "e", "m", "e", "n", "t", " ", "f", "e", "e", " ", "t", "o", "o", " ", "l", "o", "w">>,
     <<"a", "l", "r", "e", "a", "d", "y", " ", "k", "n", "o", "w", "n">>,
     <<"i", "n", "v", "a", "l", "i", "d", " ", "p", "r", "i", "v", "a", "t", "e", " ", "k", "e", "y">>,
     <<"e", "x", "e", "c", "u", "t", "i", "o", "n", " ", "r", "e", "v", "e", "r", "t", "e", "d">> >>

\* The characters of each message a collaborator's error can carry.
Chars ==
  "insufficient funds for gas" :> 
       <<"i", "n", "s", "u", "f", "f", "i", "c", "i", "e", "n", "t", " ", "f", "u", "n", "d", "s", " ", "f", "o", "r", " ", "g", "a", "s">>
  @@ "Nonce too low" :> 
       <<"N", "o", "n", "c", "e", " ", "t", "o", "o", " ", "l", "o", "w">>
  @@ "replacement fee too low" :> 
       <<"r", "e", "p", "l", "a", "c", "e", "m", "e", "n", "t", " ", "f", "e", "e", " ", "t", "o", "o", " ", "l", "o", "w">>
  @@ "ALREADY KNOWN" :> 
       <<"A", "L", "R", "E", "A", "D", "Y", " ", "K", "N", "O", "W", "N">>
  @@ "invalid private key" :> 
       <<"i", "n", "v", "a", "l", "i", "d", " ", "p", "r", "i", "v", "a", "t", "e", " ", "k", "e", "y">>
  @@ "Execution Reverted: STF" :> 
       <<"E", "x", "e", "c", "u", "t", "i", "o", "n", " ", "R", "e", "v", "e", "r", "t", "e", "d", ":", " ", "S", "T", "F">>
  @@ "Network error: nonce low" :> 
       <<"N", "e", "t", "w", "o", "r", "k", " ", "e", "r", "r", "o", "r", ":", " ", "n", "o", "n", "c", "e", " ", "l", "o", "w">>

UpperCase ==
  <<"A", "B", "C", "D", "E", "F", "G", "H", "I", "J", "K", "L", "M", "N", "O", "P", "Q", "R", "S", "T", "U", "V", "W", "X", "Y", "Z">>

LowerCase ==
  <<"a", "b", "c", "d", "e", "f", "g", "h", "i", "j", "k", "l", "m", "n", "o", "p", "q", "r", "s", "t", "u", "v", "w", "x", "y", "z">>

\* error.message of an error that carries none.
NoMessage == "<undefined>"

\* String.prototype.toLowerCase, one character.
LowerChar(c) ==
  IF \E i \in 1..Len(UpperCase) : UpperCase[i] = c
    THEN LowerCase[CHOOSE i \in 1..Len(UpperCase) : UpperCase[i] = c]
    ELSE c

\* String.prototype.toLowerCase.
ToLowerCase(s) == [i \in 1..Len(s) |-> LowerChar(s[i])]

\* String.prototype.includes.
Includes(s, sub) ==
  \E i \in 1..(Len(s) - Len(sub) + 1) : SubSeq(s, i, i + Len(sub) - 1) = sub

\* ------------------------------------------------------------------- errors
\* An error object: name, code (NoCode when absent), message, details.
Err(name, code, message, details) ==
  [name |-> name, code |-> code, message |-> message, details |-> details]

NoError == Err("", NoCode, NoMessage, <<>>)

\* The errors the chain client can reject a call with.
ClientErrors ==
  {Err("Error", NoCode, m, <<>>) : m \in DOMAIN Chars}
    \cup {Err("Error", NoCode, NoMessage, <<>>)}

\* isNonRetryableError without the toLowerCase: a case-sensitive match.
isNonRetryableError_CaseSensitive(error) ==
  LET errorMessage == IF error.message = NoMessage THEN <<>> ELSE Chars[error.message]
  IN  \E k \in 1..Len(nonRetryableMessages) : Includes(errorMessage, nonRetryableMessages[k])

\* blockchain.js:322-334
isNonRetryableError(error) ==
  LET errorMessage == IF error.message = NoMessage THEN <<>>
                      ELSE ToLowerCase(Chars[error.message])
  IN  \E k \in 1..Len(nonRetryableMessages) : Includes(errorMessage, nonRetryableMessages[k])

\* Math.pow on naturals.
RECURSIVE Pow(_, _)
Pow(b, e) == IF e = 0 THEN 1 ELSE b * Pow(b, e - 1)

\* RetryDelay with the exponent one too high.
RetryDelay_ExponentOff(attempt) == RETRY_BASE_DELAY_MS * Pow(RETRY_BACKOFF_MULTIPLIER, attempt)

\* blockchain.js:301
RetryDelay(attempt) == RETRY_BASE_DELAY_MS * Pow(RETRY_BACKOFF_MULTIPLIER, attempt - 1)

\* blockchain.js:310-314
RetriesExhaustedError(operationName, lastError) ==
  Err("BlockchainError", TX_FAILED,
      operationName \o " failed after " \o ToString(MAX_RETRY_ATTEMPTS) \o " attempts",
      [lastError |-> lastError.message])

\* -------------------------------------------------------------------- state
VARIABLES
  kind,               \* "BUY" (buy.js) or "SELL" (sell.js)
  pc,                 \* the await the invocation is at
  slippageTolerance,  \* config.slippageTolerance, in thousandths of a percent
  amountUsd,          \* BUY: buyAmountUsd, in cents
  amountIn,           \* wethAmountWei (BUY) or tokenBalance (SELL)
  wethBalance,        \* BUY: wethBalance (NotRead before the read)
  ethBalance,         \* BUY: ethBalance (NotRead before the read)
  idx,                \* findBestPoolFee: position in POOL_FEE_TIERS
  probes,             \* findBestPoolFee: the quoter calls of the last call (until approveToken)
  bestQuote,          \* findBestPoolFee: bestQuote
  minAmountOut,       \* minAmountOut
  allowance,          \* approveToken: currentAllowance (NotRead before the read)
  retry,              \* executeWithRetry: the running or last call
  submissions,        \* every call of an executeWithRetry callback: what it sent
  approval,           \* what the chain did with the approval transaction
  swap,               \* what the chain did with the swap transaction
  swapLatency,        \* ms from the start of waitForTransaction to tx.wait() settling
  error,              \* the error thrown to main's catch (NoError if none)
  result,             \* what executeBuy / executeSell returned
  outcome,            \* how main ended: outputs written and exit status
  maxGasPrice,        \* config.maxGasPrice, in Gwei (NotRead before validateTradeConfig)
  ethPrice,           \* getEthPriceUsd: the price returned and where it came from
  gasPrice,           \* the network's gas price during the invocation, in Gwei
  dryRun,             \* the dry run's local variables
  rpc,                \* createProvider: the endpoints tried and lastError
  fnCall,             \* a function called on its own: name, arguments, value
  overlap             \* two invocations at once: the router's allowance and each one's position

vars == <<kind, pc, slippageTolerance, amountUsd, amountIn, wethBalance, ethBalance, idx,
          probes, bestQuote, minAmountOut, allowance, retry, submissions, approval, swap,
          swapLatency, error, result, outcome, maxGasPrice, ethPrice, gasPrice, dryRun,
          rpc, fnCall, overlap>>

\* The value of a variable the code has not assigned yet.
NotRead == -1
\* The latency of a tx.wait() that never settles.
NeverSettles == -2
\* process.env.SLIPPAGE_TOLERANCE when the variable is not set.
Unset == -1
NoResult == [success |-> FALSE, skipped |-> FALSE, reason |-> ""]
NoOutcome == [status |-> "running", exit |-> -1, code |-> NoCode, message |-> NoMessage]
NoRetry == [operationName |-> "", attempt |-> 0, calls |-> 0, errors |-> <<>>,
            delays |-> <<>>, status |-> "idle"]

\* No function is called on its own during an invocation of main.
NoCall == [fn |-> "", args |-> <<>>, value |-> NotRead]
\* No second invocation is running.
NoOverlap == [routerAllowance |-> NotRead, inv |-> <<>>, swaps |-> <<>>]
\* getEthPriceUsd has not been called.
NoPrice == [usd |-> NotRead, source |-> "none"]
\* part_000:105 / 149: `let bestQuote = null`.
NullQuote == [fee |-> 0, amountOut |-> NotRead]
\* The dry run's local variables before it runs, and `calls`, the requests it has
\* made to the RPC endpoint.
NoDryRun ==
  [ethBalance |-> NotRead, tokenBalance |-> NotRead, buyAmountUsd |-> 0,
   ethAmountWei |-> NotRead, warned |-> FALSE, idx |-> 1, bestQuote |-> NullQuote,
   minOut |-> NotRead, sellQuote |-> NullQuote, calls |-> <<>>]
\* createProvider before its loop: the position in rpcUrls, the endpoints tried
\* so far with what each did, lastError, and the provider returned.
NoRpc == [i |-> 1, attempts |-> <<>>, lastError |-> NoError, provider |-> "none"]

\* The network gas prices tried, in Gwei: the default maximum and just above.
GasPrices == {MAX_GAS_PRICE_GWEI, MAX_GAS_PRICE_GWEI + 1}

\* What no step of main assigns.
asideVars == <<gasPrice, dryRun, rpc, fnCall, overlap>>

\* trading.js:77
InitialBestQuote == [fee |-> 0, amountOut |-> 0]

\* The variables of the trade flow before main has run.
FlowNotStarted ==
  /\ slippageTolerance = 0
  /\ amountUsd = 0
  /\ amountIn = NotRead
  /\ wethBalance = NotRead
  /\ ethBalance = NotRead
  /\ idx = 1
  /\ probes = <<>>
  /\ bestQuote = InitialBestQuote
  /\ minAmountOut = 0
  /\ allowance = NotRead
  /\ retry = NoRetry
  /\ submissions = <<>>
  /\ approval = "none"
  /\ swap = "none"
  /\ swapLatency = NotRead
  /\ error = NoError
  /\ result = NoResult
  /\ outcome = NoOutcome
  /\ maxGasPrice = NotRead
  /\ ethPrice = NoPrice

Init ==
  /\ kind \in {"BUY", "SELL"}
  /\ pc = "validate"
  /\ gasPrice \in GasPrices
  /\ dryRun = NoDryRun
  /\ rpc = NoRpc
  /\ overlap = NoOverlap
  /\ fnCall = NoCall
  /\ FlowNotStarted

\* A throw that nothing below main catches: control passes to main's catch block.
Throw(e) ==
  /\ pc' = "threw"
  /\ error' = e

\* ------------------------------------------------------------ pure functions
\* BigInt division (truncates toward zero).
BigIntDiv(a, b) == IF a >= 0 THEN a \div b ELSE -((-a) \div b)

\* calculateMinOutput taking the percentage times 1000 for the basis points.
calculateMinOutput_PercentTimes1000(expectedOutput, slippagePercent) ==
  LET slippageBps == slippagePercent
  IN  expectedOutput - BigIntDiv(expectedOutput * slippageBps, 10000)

\* trading.js:123-126; slippagePercent in thousandths of a percent, so that
\* slippagePercent * 100 is slippagePercent / 10 basis points.
calculateMinOutput(expectedOutput, slippagePercent) ==
  LET slippageBps == slippagePercent \div 10
  IN  expectedOutput - BigIntDiv(expectedOutput * slippageBps, 10000)

\* generateRandomBuyAmount taking the maximum for the width of the range.
generateRandomBuyAmount_RangeFromZero(k) ==
  LET range == MAX_BUY_AMOUNT_USD
  IN  (2 * (k * range * 100 + RandomSteps * MIN_BUY_AMOUNT_USD * 100) + RandomSteps)
        \div (2 * RandomSteps)

\* trading.js:132-137 with Math.random() = k / RandomSteps; the result in cents.
generateRandomBuyAmount(k) ==
  LET range == MAX_BUY_AMOUNT_USD - MIN_BUY_AMOUNT_USD
  IN  (2 * (k * range * 100 + RandomSteps * MIN_BUY_AMOUNT_USD * 100) + RandomSteps)
        \div (2 * RandomSteps)

\* The exponent k a Number takes for the quotient n / d, 0 < n / d < 1: the
\* least k with n * 2^k / d >= 2^(MantissaBits - 1).
RECURSIVE NumberExponent(_, _, _)
NumberExponent(n, d, k) ==
  IF n * Pow(2, k) >= d * Pow(2, MantissaBits - 1) THEN k ELSE NumberExponent(n, d, k + 1)

\* trading.js:166: the Number n / d of a division, m * 2^-k with m the
\* significand, rounded to nearest, ties to even.
NumberDivide(n, d) ==
  LET k == NumberExponent(n, d, 0)
      scaled == n * Pow(2, k)
      floor == scaled \div d
      rest == scaled - floor * d
      up == 2 * rest > d \/ (2 * rest = d /\ floor % 2 = 1)
  IN  [m |-> IF up THEN floor + 1 ELSE floor, k |-> k]

\* trading.js:167: parseEther(x.toFixed(18)), toFixed taking the nearest
\* multiple of the smallest unit (the larger of two equally near).
ParseEtherToFixed(x) == (2 * x.m * EthUnit + Pow(2, x.k)) \div (2 * Pow(2, x.k))

\* trading.js:166-167: parseEther((amountUsd / ethPriceUsd).toFixed(18)), with
\* EthUnit smallest units per whole unit; cents and whole dollars in.
WethAmountWei(cents, ethPriceUsd) == ParseEtherToFixed(NumberDivide(cents, 100 * ethPriceUsd))

\* trading.js:181: parseEther('0.001')
GasBuffer == EthUnit \div 1000

\* buy.js:56, sell.js:56 and validateTradeConfig (part_000:483):
\* Number(process.env.SLIPPAGE_TOLERANCE) || SLIPPAGE_TOLERANCE_PERCENT, then ?? 5.
ConfiguredSlippage(env) ==
  IF env = Unset \/ env = 0 THEN SLIPPAGE_TOLERANCE_PERCENT * 1000 ELSE env

\* buy.js:57, sell.js:57 and validateTradeConfig (part_000:484):
\* Number(process.env.MAX_GAS_PRICE) || MAX_GAS_PRICE_GWEI, then ?? 50.
ConfiguredMaxGasPrice(env) ==
  IF env = Unset \/ env = 0 THEN MAX_GAS_PRICE_GWEI ELSE env

\* The values a read of an on-chain amount is tried with, around the amount
\* it is compared to.
Around(x) == {y \in {x - 1, x, x + 1} : y >= 0}

\* What one quoter probe can answer (FALSE: the call rejects).
QuoteAmounts == (0..MaxAmount) \cup {LargeAmount}
\* The SLIPPAGE_TOLERANCE settings tried (thousandths of a percent).
SlippageSettings == {Unset, 0, 50000}
\* The prices the Chainlink feed answers with, in whole dollars.
OraclePrices == {2500}
\* The ETH balances read: one unit short of the gas buffer, and just enough.
EthBalances == {GasBuffer - 1, GasBuffer}
\* The Math.random() results main is tried with: the least and the greatest.
RandomDraws == {0, RandomSteps - 1}

\* blockchain.js:26-34 / part_000:223-235 with the messages the code gives.
ValidationError(message, code, details) == Err("ValidationError", code, message, details)
BlockchainError(message, code, details) == Err("BlockchainError", code, message, details)

\* constants.js:30-35
BASE_RPC_URLS ==
  <<"https://mainnet.base.org", "https://base.llamarpc.com", "https://base.publicnode.com",
    "https://1rpc.io/base">>

\* blockchain.js:47: the primary URL (the RPC_URL setting), then the fallbacks.
RpcUrls == <<"RPC_URL">> \o BASE_RPC_URLS

\* blockchain.js:80-84: lastError?.message of the last endpoint's error.
RpcConnectionFailedError(attemptedUrls, lastError) ==
  BlockchainError("Failed to connect to any RPC endpoint", RPC_CONNECTION_FAILED,
                  [attemptedUrls |-> attemptedUrls, lastError |-> lastError.message])

\* blockchain.js:63
ConnectionTimeoutError == Err("Error", NoCode, "Connection timeout", <<>>)

\* ------------------------------------------------------------------- main
\* buy.js:41-58 / sell.js:41-58: validateEnvironment and validateTradeConfig.
MainValidateConfig ==
  /\ pc = "validate"
  /\ \E env \in {"ok", "missing", "bad_key", "bad_address"}, slip \in SlippageSettings :
       IF env = "ok"
         THEN /\ slippageTolerance' = ConfiguredSlippage(slip)
              /\ maxGasPrice' = ConfiguredMaxGasPrice(Unset)
              /\ pc' = "connect"
              /\ error' = error
         ELSE /\ Throw(CASE env = "missing" ->
                         ValidationError("Missing required environment variables",
                                         MISSING_ENV_VAR, [missing |-> "RPC_URL"])
                       [] env = "bad_key" ->
                         ValidationError("Invalid private key format",
                                         INVALID_PRIVATE_KEY, [field |-> "privateKey"])
                       [] env = "bad_address" ->
                         ValidationError("TOKEN_ADDRESS is not a valid Ethereum address",
                                         INVALID_ADDRESS, [field |-> "TOKEN_ADDRESS"]))
              /\ UNCHANGED <<slippageTolerance, maxGasPrice>>
  /\ UNCHANGED asideVars
  /\ UNCHANGED <<kind, ethPrice, ethBalance, amountUsd, amountIn, wethBalance, idx, probes,
                 bestQuote, minAmountOut, allowance, retry, submissions, approval, swap,
                 swapLatency, result, outcome>>

\* buy.js:60-77 / sell.js:60-71: createProvider, createWallet, then (BUY)
\* generateRandomBuyAmount and the call of executeBuy / executeSell, whose first
\* awaits (getAddress, getTokenInfo with its per-field defaults) do not fail.
MainConnect ==
  /\ pc = "connect"
  /\ \E net \in {"ok", "no_rpc", "no_wallet"}, k \in RandomDraws :
       CASE net = "ok" ->
              /\ pc' = IF kind = "BUY" THEN "price" ELSE "balance"
              /\ amountUsd' = IF kind = "BUY" THEN generateRandomBuyAmount(k) ELSE amountUsd
              /\ error' = error
         [] net = "no_rpc" ->
              /\ Throw(RpcConnectionFailedError(Len(RpcUrls), ConnectionTimeoutError))
              /\ amountUsd' = amountUsd
         [] net = "no_wallet" ->
              /\ Throw(BlockchainError("Failed to create wallet from private key",
                                       INVALID_PRIVATE_KEY, <<>>))
              /\ amountUsd' = amountUsd
  /\ UNCHANGED asideVars
  /\ UNCHANGED <<kind, maxGasPrice, ethPrice, ethBalance, slippageTolerance, amountIn,
                 wethBalance, idx, probes, bestQuote, minAmountOut, allowance, retry,
                 submissions, approval, swap, swapLatency, result, outcome>>

\* ---------------------------------------------------------- getEthPriceUsd
\* PriceFeedRejected that lets the feed's error leave getEthPriceUsd.
PriceFeedRejected_Rethrow(e, nextPc) == Throw(e)

\* trading.js:58-62: the catch block warns and the fallback price is returned;
\* the caller goes on with its next step.
PriceFeedRejected(e, nextPc) ==
  /\ pc' = nextPc
  /\ error' = error

\* trading.js:44-63: latestRoundData() answers with a price, or rejects and the
\* fallback price is taken.
GetEthPriceUsd(nextPc) ==
  \/ \E price \in OraclePrices :
       /\ ethPrice' = [usd |-> price, source |-> "oracle"]
       /\ pc' = nextPc
       /\ error' = error
  \/ \E e \in ClientErrors :
       /\ ethPrice' = [usd |-> FALLBACK_ETH_PRICE, source |-> "fallback"]
       /\ PriceFeedRejected(e, nextPc)

\* ------------------------------------------------------------- executeBuy
\* trading.js:44-63 and 164-167: the oracle price or the fallback, then the
\* WETH amount in smallest units.
BuyGetEthPrice ==
  /\ pc = "price"
  /\ kind = "BUY"
  /\ GetEthPriceUsd("weth_balance")
  /\ amountIn' = IF pc' = "weth_balance" THEN WethAmountWei(amountUsd, ethPrice'.usd)
                                         ELSE amountIn
  /\ UNCHANGED asideVars
  /\ UNCHANGED <<kind, maxGasPrice, ethBalance, slippageTolerance, amountUsd,
                 wethBalance, idx, probes, bestQuote, minAmountOut, allowance, retry,
                 submissions, approval, swap, swapLatency, result, outcome>>

\* trading.js:172 with getTokenBalance (blockchain.js:154-168).
BuyGetWethBalance ==
  /\ pc = "weth_balance"
  /\ \/ \E b \in Around(amountIn) :
          /\ wethBalance' = b
          /\ pc' = "eth_balance"
          /\ error' = error
     \/ /\ Throw(BlockchainError("Failed to get token balance", TOKEN_NOT_FOUND,
                                 [tokenAddress |-> "WETH"]))
        /\ wethBalance' = wethBalance
  /\ UNCHANGED asideVars
  /\ UNCHANGED <<kind, maxGasPrice, ethPrice, ethBalance, slippageTolerance, amountUsd,
                 amountIn, idx, probes, bestQuote, minAmountOut, allowance, retry, submissions,
                 approval, swap, swapLatency, result, outcome>>

\* part_000:410-419
InsufficientBalanceError(balance, required, tokenSymbol) ==
  ValidationError("Insufficient " \o tokenSymbol \o " balance", INSUFFICIENT_BALANCE,
                  [balance |-> balance, required |-> required, token |-> tokenSymbol])

\* IsInsufficient that lets a balance one unit short pass.
IsInsufficient_OffByOne(balance, required) == balance + 1 < required

\* part_000:409
IsInsufficient(balance, required) == balance < required

\* trading.js:173-183 with getEthBalance (blockchain.js:177-189) and
\* validateSufficientBalance (part_000:408-420), ETH first, then WETH.
BuyGetEthBalance ==
  /\ pc = "eth_balance"
  /\ \/ \E balance \in EthBalances :
          /\ ethBalance' = balance
          /\ IF IsInsufficient(balance, GasBuffer)
               THEN Throw(InsufficientBalanceError(balance, GasBuffer, "ETH (for gas)"))
               ELSE IF IsInsufficient(wethBalance, amountIn)
                 THEN Throw(InsufficientBalanceError(wethBalance, amountIn, "WETH"))
                 ELSE /\ pc' = "quote"
                      /\ error' = error
     \/ /\ Throw(BlockchainError("Failed to get ETH balance", RPC_CONNECTION_FAILED, <<>>))
        /\ ethBalance' = ethBalance
  /\ UNCHANGED asideVars
  /\ UNCHANGED <<kind, maxGasPrice, ethPrice, slippageTolerance, amountUsd, amountIn,
                 wethBalance, idx, probes, bestQuote, minAmountOut, allowance, retry,
                 submissions, approval, swap, swapLatency, result, outcome>>

\* ------------------------------------------------------------- executeSell
\* trading.js:309-322
SkippedResult == [success |-> TRUE, skipped |-> TRUE, reason |-> "No tokens to sell"]

\* IsZeroBalance that never holds: the zero-balance return is missing.
IsZeroBalance_Never(tokenBalance) == FALSE

\* trading.js:309
IsZeroBalance(tokenBalance) == tokenBalance = 0

\* trading.js:306-324 with getTokenBalance (blockchain.js:154-168).
SellGetTokenBalance ==
  /\ pc = "balance"
  /\ kind = "SELL"
  /\ \/ \E tokenBalance \in 0..MaxBalance :
          /\ amountIn' = tokenBalance
          /\ IF IsZeroBalance(tokenBalance)
               THEN /\ result' = SkippedResult
                    /\ pc' = "returned"
               ELSE /\ result' = result
                    /\ pc' = "quote"
          /\ error' = error
     \/ /\ Throw(BlockchainError("Failed to get token balance", TOKEN_NOT_FOUND,
                                 [tokenAddress |-> "TOKEN"]))
        /\ UNCHANGED <<amountIn, result>>
  /\ UNCHANGED asideVars
  /\ UNCHANGED <<kind, maxGasPrice, ethPrice, ethBalance, slippageTolerance, amountUsd,
                 wethBalance, idx, probes, bestQuote, minAmountOut, allowance, retry,
                 submissions, approval, swap, swapLatency, outcome>>

\* --------------------------------------------------------- findBestPoolFee
\* The pair executeBuy (trading.js:186-192) / executeSell (327-333) quotes.
TokenIn == IF kind = "BUY" THEN "WETH" ELSE "TOKEN"
TokenOut == IF kind = "BUY" THEN "TOKEN" ELSE "WETH"

\* trading.js:97-99
UpdateBestQuote(best, fee, amountOut) ==
  IF amountOut > best.amountOut THEN [fee |-> fee, amountOut |-> amountOut] ELSE best

\* NoQuoteFound that never holds: the initial quote is returned as it is.
NoQuoteFound_Never(best) == FALSE

\* trading.js:105
NoQuoteFound(best) == best.amountOut = 0

\* trading.js:106-110
NoLiquidityError(tokenIn, tokenOut) ==
  BlockchainError("No liquidity found for token pair", NO_LIQUIDITY,
                  [tokenIn |-> tokenIn, tokenOut |-> tokenOut])

\* ProbeRejected that lets the quoter's error leave the loop.
ProbeRejected_Rethrow(e) ==
  /\ Throw(e)
  /\ UNCHANGED <<bestQuote, idx>>

\* trading.js:100-102: the catch block of the loop body swallows the error and
\* the loop goes on with the next tier.
ProbeRejected(e) ==
  /\ bestQuote' = bestQuote
  /\ idx' = idx + 1
  /\ UNCHANGED <<pc, error>>

\* trading.js:79-103: one iteration of the loop, the quoter answering with an
\* amount or rejecting.
ProbeFeeTier ==
  /\ pc = "quote"
  /\ idx <= Len(POOL_FEE_TIERS)
  /\ LET fee == POOL_FEE_TIERS[idx]
         quoteParams == [tokenIn |-> TokenIn, tokenOut |-> TokenOut, amountIn |-> amountIn,
                         fee |-> fee]
     IN  \/ \E amountOut \in QuoteAmounts :
              /\ probes' = Append(probes, [params |-> quoteParams, ok |-> TRUE,
                                           amountOut |-> amountOut])
              /\ bestQuote' = UpdateBestQuote(bestQuote, fee, amountOut)
              /\ idx' = idx + 1
              /\ UNCHANGED <<pc, error>>
         \/ /\ probes' = Append(probes, [params |-> quoteParams, ok |-> FALSE,
                                         amountOut |-> 0])
            /\ ProbeRejected(Err("Error", NoCode, "Execution Reverted: STF", <<>>))
  /\ UNCHANGED asideVars
  /\ UNCHANGED <<kind, maxGasPrice, ethPrice, ethBalance, slippageTolerance, amountUsd,
                 amountIn, wethBalance, minAmountOut, allowance, retry, submissions, approval,
                 swap, swapLatency, result, outcome>>

\* QuotedOutput that takes the amount sold for the amount quoted.
QuotedOutput_InputAmount(quote) == amountIn

\* trading.js:186 / 327: `const { fee, amountOut } = await findBestPoolFee(...)`,
\* the amount the minimum output is computed from.
QuotedOutput(quote) == quote.amountOut

\* QuoteSelectionThrows that runs the loop over the fee tiers once more before
\* it gives up.
QuoteSelectionThrows_Reprobed(e) ==
  IF Len(probes) <= Len(POOL_FEE_TIERS)
    THEN /\ idx' = 1
         /\ UNCHANGED <<pc, error>>
    ELSE /\ Throw(e)
         /\ idx' = idx

\* trading.js:105-111 with 186 / 327: the throw leaves findBestPoolFee and, the
\* call not being under executeWithRetry, executeBuy / executeSell as well.
QuoteSelectionThrows(e) ==
  /\ Throw(e)
  /\ idx' = idx

\* trading.js:105-114, and the caller's calculateMinOutput (194 / 335).
FindBestPoolFeeEnd ==
  /\ pc = "quote"
  /\ idx > Len(POOL_FEE_TIERS)
  /\ IF NoQuoteFound(bestQuote)
       THEN /\ QuoteSelectionThrows(NoLiquidityError(TokenIn, TokenOut))
            /\ minAmountOut' = minAmountOut
       ELSE /\ pc' = "approve"
            /\ minAmountOut' = calculateMinOutput(QuotedOutput(bestQuote), slippageTolerance)
            /\ error' = error
            /\ idx' = idx
  /\ UNCHANGED asideVars
  /\ UNCHANGED <<kind, maxGasPrice, ethPrice, ethBalance, slippageTolerance, amountUsd,
                 amountIn, wethBalance, probes, bestQuote, allowance, retry, submissions,
                 approval, swap, swapLatency, result, outcome>>

\* ---------------------------------------------------------- executeWithRetry
\* blockchain.js:284-287: the call starts with attempt = 1.
StartRetry(operationName) ==
  [operationName |-> operationName, attempt |-> 1, calls |-> 0, errors |-> <<>>,
   delays |-> <<>>, status |-> "running"]

\* ShouldSleep that also waits after the last attempt.
ShouldSleep_AfterLast(attempt) == attempt <= MAX_RETRY_ATTEMPTS

\* blockchain.js:300
ShouldSleep(attempt) == attempt < MAX_RETRY_ATTEMPTS

\* blockchain.js:287-315: one pass of the loop.  fn sends `call`; r is NoError
\* when fn resolves (to the transaction) and the error it rejects with otherwise.
RetryAttempt(call, okPc) ==
  \E r \in {NoError} \cup ClientErrors :
    /\ submissions' = Append(submissions, [call EXCEPT !.accepted = (r = NoError)])
    /\ IF r = NoError
         THEN /\ retry' = [retry EXCEPT !.calls = @ + 1, !.status = "returned"]
              /\ pc' = okPc
              /\ error' = error
         ELSE IF isNonRetryableError(r)
           THEN /\ retry' = [retry EXCEPT !.calls = @ + 1, !.errors = Append(@, r),
                                          !.status = "threw"]
                /\ Throw(r)
           ELSE LET slept == IF ShouldSleep(retry.attempt)
                               THEN Append(retry.delays, RetryDelay(retry.attempt))
                               ELSE retry.delays
                IN  IF retry.attempt + 1 <= MAX_RETRY_ATTEMPTS
                      THEN /\ retry' = [retry EXCEPT !.calls = @ + 1, !.errors = Append(@, r),
                                                     !.attempt = @ + 1, !.delays = slept]
                           /\ UNCHANGED <<pc, error>>
                      ELSE /\ retry' = [retry EXCEPT !.calls = @ + 1,
                                                     !.errors = Append(@, r),
                                                     !.attempt = @ + 1, !.delays = slept,
                                                     !.status = "exhausted"]
                           /\ Throw(RetriesExhaustedError(retry.operationName, r))

\* ------------------------------------------------------------- approveToken
\* trading.js:222-235 / 364-376: the operation name the swap is retried under.
SwapOperationName == IF kind = "BUY" THEN "Buy swap" ELSE "Sell swap"

\* AllowanceSufficient with a strict comparison.
AllowanceSufficient_Strict(currentAllowance, amount) == currentAllowance > amount

\* blockchain.js:209
AllowanceSufficient(currentAllowance, amount) == currentAllowance >= amount

\* blockchain.js:200-216: the allowance read and the decision to approve.
ApproveReadAllowance ==
  /\ pc = "approve"
  /\ \/ \E currentAllowance \in Around(amountIn) :
          /\ allowance' = currentAllowance
          /\ IF AllowanceSufficient(currentAllowance, amountIn)
               THEN /\ approval' = "skipped"
                    /\ pc' = "swap_submit"
                    /\ retry' = StartRetry(SwapOperationName)
               ELSE /\ approval' = approval
                    /\ pc' = "approve_submit"
                    /\ retry' = StartRetry("Token approval")
          /\ error' = error
     \/ \E e \in ClientErrors :
          /\ Throw(e)
          /\ UNCHANGED <<allowance, approval, retry>>
  /\ probes' = <<>>
  /\ UNCHANGED asideVars
  /\ UNCHANGED <<kind, maxGasPrice, ethPrice, ethBalance, slippageTolerance, amountUsd,
                 amountIn, wethBalance, idx, bestQuote, minAmountOut, submissions, swap,
                 swapLatency, result, outcome>>

\* blockchain.js:216-225: the approve callback under executeWithRetry.
ApproveSubmit ==
  /\ pc = "approve_submit"
  /\ RetryAttempt([type |-> "APPROVAL", tokenIn |-> TokenIn, amountIn |-> amountIn,
                   fee |-> 0, amountOutMinimum |-> 0, accepted |-> FALSE],
                  "approve_wait")
  /\ approval' = IF retry'.status = "returned" THEN "submitted" ELSE approval
  /\ UNCHANGED asideVars
  /\ UNCHANGED <<kind, maxGasPrice, ethPrice, ethBalance, slippageTolerance, amountUsd,
                 amountIn, wethBalance, idx, probes, bestQuote, minAmountOut, allowance, swap,
                 swapLatency, result, outcome>>

\* ReceiptSucceeded that takes every receipt for a success.
ReceiptSucceeded_Any(status) == TRUE

\* blockchain.js:231 and 366: receipt.status !== 1 is a failure.
ReceiptSucceeded(status) == status = 1

\* ApprovalRevertedError carrying the code of a transaction that was not sent.
ApprovalRevertedError_AsTxFailed ==
  BlockchainError("Token approval transaction failed", TX_FAILED, [txHash |-> "approval"])

\* blockchain.js:232-236
ApprovalRevertedError ==
  BlockchainError("Token approval transaction failed", TX_REVERTED, [txHash |-> "approval"])

\* blockchain.js:229-240: tx.wait() with no timer beside it, then the status
\* check; on success control returns to the caller, which starts the swap.
ApproveWait ==
  /\ pc = "approve_wait"
  /\ \/ \E status \in {0, 1} :
          /\ approval' = IF status = 1 THEN "confirmed" ELSE "reverted"
          /\ IF ~ReceiptSucceeded(status)
               THEN /\ Throw(ApprovalRevertedError)
                    /\ retry' = retry
               ELSE /\ pc' = "swap_submit"
                    /\ retry' = StartRetry(SwapOperationName)
                    /\ error' = error
     \/ \E e \in ClientErrors :
          /\ approval' = "wait_failed"
          /\ Throw(e)
          /\ retry' = retry
     \/ /\ approval' = "never_confirmed"
        /\ pc' = "hung"
        /\ UNCHANGED <<error, retry>>
  /\ UNCHANGED asideVars
  /\ UNCHANGED <<kind, maxGasPrice, ethPrice, ethBalance, slippageTolerance, amountUsd,
                 amountIn, wethBalance, idx, probes, bestQuote, minAmountOut, allowance,
                 submissions, swap, swapLatency, result, outcome>>

\* --------------------------------------------------------------------- swap
\* trading.js:350: the deadline executeSell computes, in seconds, from the clock;
\* no later line reads it, and executeBuy computes none.
SellDeadline(now) == now + TX_DEADLINE_MINUTES * 60

\* trading.js:210-218 / 352-360: swapParams has no deadline property, and the
\* call is exactInputSingle itself, not multicall(deadline, ...).
NoDeadline == "<no deadline>"

\* SwapParams that leaves one unit of the input amount unsold.
SwapParams_Partial ==
  [type |-> "SWAP", tokenIn |-> TokenIn, amountIn |-> amountIn - 1, fee |-> bestQuote.fee,
   amountOutMinimum |-> minAmountOut, deadline |-> NoDeadline, accepted |-> FALSE]

\* trading.js:210-218 / 352-360
SwapParams ==
  [type |-> "SWAP", tokenIn |-> TokenIn, amountIn |-> amountIn, fee |-> bestQuote.fee,
   amountOutMinimum |-> minAmountOut, deadline |-> NoDeadline, accepted |-> FALSE]

\* trading.js:222-235 / 364-376: the exactInputSingle callback under
\* executeWithRetry.
SwapSubmit ==
  /\ pc = "swap_submit"
  /\ RetryAttempt(SwapParams, "swap_wait")
  /\ swap' = IF retry'.status = "returned" THEN "submitted" ELSE swap
  /\ UNCHANGED asideVars
  /\ UNCHANGED <<kind, maxGasPrice, ethPrice, ethBalance, slippageTolerance, amountUsd,
                 amountIn, wethBalance, idx, probes, bestQuote, minAmountOut, allowance,
                 approval, swapLatency, result, outcome>>

\* ConfirmationTimeoutError reported as the revert is.
ConfirmationTimeoutError_AsRevert ==
  Err("BlockchainError", TX_REVERTED, "Transaction reverted", <<>>)

\* blockchain.js:362
ConfirmationTimeoutError == Err("Error", NoCode, "Transaction confirmation timeout", <<>>)

\* blockchain.js:367-371
TransactionRevertedError(status) ==
  BlockchainError("Transaction reverted", TX_REVERTED, [txHash |-> "swap", status |-> status])

\* The times tx.wait() is tried with, around the timer's.
ConfirmationLatencies(timeoutMs) == {timeoutMs - 1, timeoutMs, timeoutMs + 1}

\* blockchain.js:359-364: which promise of the race settles first; when both
\* fall in the same millisecond either may.
TimerWins(latency, timeoutMs) == latency = NeverSettles \/ latency >= timeoutMs
WaitWins(latency, timeoutMs) == latency # NeverSettles /\ latency <= timeoutMs

\* blockchain.js:356-380 with the timeout its callers use.
WaitForTransactionWithin(timeoutMs) ==
  /\ pc = "swap_wait"
  /\ \E latency \in ConfirmationLatencies(timeoutMs) \cup {NeverSettles} :
       /\ swapLatency' = latency
       /\ \/ /\ WaitWins(latency, timeoutMs)
             /\ \/ \E status \in {0, 1} :
                     /\ swap' = IF status = 1 THEN "confirmed" ELSE "reverted"
                     /\ IF ~ReceiptSucceeded(status)
                          THEN Throw(TransactionRevertedError(status))
                          ELSE /\ pc' = "post_first"
                               /\ error' = error
                \/ \E e \in ClientErrors :
                     /\ swap' = "wait_failed"
                     /\ Throw(e)
          \/ /\ TimerWins(latency, timeoutMs)
             /\ swap' = "timeout"
             /\ Throw(ConfirmationTimeoutError)
  /\ UNCHANGED asideVars
  /\ UNCHANGED <<kind, maxGasPrice, ethPrice, ethBalance, slippageTolerance, amountUsd,
                 amountIn, wethBalance, idx, probes, bestQuote, minAmountOut, allowance, retry,
                 submissions, approval, result, outcome>>

\* trading.js:245 / 385: waitForTransaction(tx, logger), the timeout defaulted.
WaitForTransaction == WaitForTransactionWithin(DEFAULT_CONFIRMATION_TIMEOUT_MS)

\* trading.js:248 / 388: the token balance after the swap.
PostReadTokenBalance ==
  /\ pc = "post_first"
  /\ \/ /\ pc' = "post_second"
        /\ error' = error
     \/ Throw(BlockchainError("Failed to get token balance", TOKEN_NOT_FOUND,
                              [tokenAddress |-> "TOKEN"]))
  /\ UNCHANGED asideVars
  /\ UNCHANGED <<kind, maxGasPrice, ethPrice, ethBalance, slippageTolerance, amountUsd,
                 amountIn, wethBalance, idx, probes, bestQuote, minAmountOut, allowance, retry,
                 submissions, approval, swap, swapLatency, result, outcome>>

\* trading.js:251-277: the properties of the record executeBuy returns, each
\* with the expression it is given.
BuyResultFields ==
  <<"success">> :> "true"
  @@ <<"type">> :> "BUY"
  @@ <<"txHash">> :> "tx.hash"
  @@ <<"explorerUrl">> :> "getExplorerUrl(tx.hash)"
  @@ <<"blockNumber">> :> "receipt.blockNumber"
  @@ <<"gasUsed">> :> "receipt.gasUsed"
  @@ <<"token", "address">> :> "tokenAddress"
  @@ <<"token", "symbol">> :> "tokenInfo.symbol"
  @@ <<"token", "name">> :> "tokenInfo.name"
  @@ <<"token", "decimals">> :> "tokenInfo.decimals"
  @@ <<"input", "wethAmount">> :> "wethAmount"
  @@ <<"input", "usdAmount">> :> "amountUsd"
  @@ <<"input", "wethAmountWei">> :> "wethAmountWei"
  @@ <<"output", "expectedTokens">> :> "amountOut"
  @@ <<"output", "minTokens">> :> "minAmountOut"
  @@ <<"output", "newTokenBalance">> :> "newTokenBalance"
  @@ <<"output", "newWethBalance">> :> "newWethBalance"
  @@ <<"poolFee">> :> "fee"
  @@ <<"timestamp">> :> "now"

\* trading.js:396-422: the properties of the record executeSell returns.
SellResultFields ==
  <<"success">> :> "true"
  @@ <<"type">> :> "SELL"
  @@ <<"txHash">> :> "tx.hash"
  @@ <<"explorerUrl">> :> "getExplorerUrl(tx.hash)"
  @@ <<"blockNumber">> :> "receipt.blockNumber"
  @@ <<"gasUsed">> :> "receipt.gasUsed"
  @@ <<"token", "address">> :> "tokenAddress"
  @@ <<"token", "symbol">> :> "tokenInfo.symbol"
  @@ <<"token", "name">> :> "tokenInfo.name"
  @@ <<"token", "decimals">> :> "tokenInfo.decimals"
  @@ <<"input", "tokenAmount">> :> "tokenBalance"
  @@ <<"input", "tokenAmountWei">> :> "tokenBalance"
  @@ <<"output", "expectedEth">> :> "amountOut"
  @@ <<"output", "minEth">> :> "minAmountOut"
  @@ <<"output", "estimatedUsdValue">> :> "usdValue"
  @@ <<"output", "newTokenBalance">> :> "newTokenBalance"
  @@ <<"output", "newEthBalance">> :> "newEthBalance"
  @@ <<"poolFee">> :> "fee"
  @@ <<"timestamp">> :> "now"

\* trading.js:251-277 / 396-422
SuccessResult ==
  [success |-> TRUE, skipped |-> FALSE, reason |-> "",
   fields |-> IF kind = "BUY" THEN BuyResultFields ELSE SellResultFields]

\* trading.js:249-280 (the WETH balance and the result record) / 389 (the ETH
\* balance).
PostReadBaseBalance ==
  /\ pc = "post_second"
  /\ \/ /\ pc' = IF kind = "BUY" THEN "returned" ELSE "post_price"
        /\ result' = IF kind = "BUY" THEN SuccessResult ELSE result
        /\ error' = error
     \/ /\ Throw(IF kind = "BUY"
                   THEN BlockchainError("Failed to get token balance", TOKEN_NOT_FOUND,
                                        [tokenAddress |-> "WETH"])
                   ELSE BlockchainError("Failed to get ETH balance", RPC_CONNECTION_FAILED,
                                        <<>>))
        /\ result' = result
  /\ UNCHANGED asideVars
  /\ UNCHANGED <<kind, maxGasPrice, ethPrice, ethBalance, slippageTolerance, amountUsd,
                 amountIn, wethBalance, idx, probes, bestQuote, minAmountOut, allowance, retry,
                 submissions, approval, swap, swapLatency, outcome>>

\* trading.js:391-425: the price for the USD value of the ETH received, and the
\* result record.
SellGetEthPrice ==
  /\ pc = "post_price"
  /\ kind = "SELL"
  /\ GetEthPriceUsd("returned")
  /\ result' = IF pc' = "returned" THEN SuccessResult ELSE result
  /\ UNCHANGED asideVars
  /\ UNCHANGED <<kind, maxGasPrice, ethBalance, slippageTolerance, amountUsd, amountIn,
                 wethBalance, idx, probes, bestQuote, minAmountOut, allowance, retry,
                 submissions, approval, swap, swapLatency, outcome>>

\* ------------------------------------------------------------- main's ends
\* sell.js:74-87
MainSkipped ==
  /\ pc = "returned"
  /\ result.skipped
  /\ outcome' = [status |-> "Skipped", exit |-> 0, code |-> NoCode, message |-> result.reason]
  /\ pc' = "exited"
  /\ UNCHANGED asideVars
  /\ UNCHANGED <<kind, maxGasPrice, ethPrice, ethBalance, slippageTolerance, amountUsd,
                 amountIn, wethBalance, idx, probes, bestQuote, minAmountOut, allowance, retry,
                 submissions, approval, swap, swapLatency, error, result>>

\* The value of a property that an object does not have.
Undefined == "undefined"

\* result.a or result.a.b for a record whose properties are `fields`; the
\* objects token, input and output exist in both results, so no read throws.
ReadPath(fields, path) == IF path \in DOMAIN fields THEN fields[path] ELSE Undefined

\* buy.js:81-90 and 156-167: what main and generateSuccessSummary read of the
\* result of executeBuy.
BuyReads ==
  {<<"txHash">>, <<"output", "newBalance">>, <<"explorerUrl">>, <<"token", "symbol">>,
   <<"token", "name">>, <<"input", "ethAmount">>, <<"input", "usdAmount">>, <<"poolFee">>,
   <<"gasUsed">>, <<"blockNumber">>}

\* sell.js:92-102 and 168-179: what main and generateSuccessSummary read of the
\* result of executeSell.
SellReads ==
  {<<"txHash">>, <<"input", "tokenAmount">>, <<"output", "expectedEth">>,
   <<"output", "estimatedUsdValue">>, <<"explorerUrl">>, <<"token", "symbol">>,
   <<"token", "name">>, <<"poolFee">>, <<"gasUsed">>, <<"blockNumber">>,
   <<"output", "newTokenBalance">>, <<"output", "newEthBalance">>}

\* buy.js:79-94 / sell.js:89-106: the outputs and the summary are written with
\* what the reads give.
MainSuccess ==
  /\ pc = "returned"
  /\ ~result.skipped
  /\ outcome' = [status |-> "Success", exit |-> 0, code |-> NoCode, message |-> NoMessage,
                 reported |-> [p \in IF kind = "BUY" THEN BuyReads ELSE SellReads |->
                                 ReadPath(result.fields, p)]]
  /\ pc' = "exited"
  /\ UNCHANGED asideVars
  /\ UNCHANGED <<kind, maxGasPrice, ethPrice, ethBalance, slippageTolerance, amountUsd,
                 amountIn, wethBalance, idx, probes, bestQuote, minAmountOut, allowance, retry,
                 submissions, approval, swap, swapLatency, error, result>>

\* buy.js:96-133 / sell.js:108-145
MainCatch ==
  /\ pc = "threw"
  /\ outcome' = [status |-> "Failure", exit |-> 1, code |-> error.code,
                 message |-> error.message]
  /\ pc' = "exited"
  /\ UNCHANGED asideVars
  /\ UNCHANGED <<kind, maxGasPrice, ethPrice, ethBalance, slippageTolerance, amountUsd,
                 amountIn, wethBalance, idx, probes, bestQuote, minAmountOut, allowance, retry,
                 submissions, approval, swap, swapLatency, error, result>>

Next ==
  \/ MainValidateConfig
  \/ MainConnect
  \/ BuyGetEthPrice
  \/ BuyGetWethBalance
  \/ BuyGetEthBalance
  \/ SellGetTokenBalance
  \/ ProbeFeeTier
  \/ FindBestPoolFeeEnd
  \/ ApproveReadAllowance
  \/ ApproveSubmit
  \/ ApproveWait
  \/ SwapSubmit
  \/ WaitForTransaction
  \/ PostReadTokenBalance
  \/ PostReadBaseBalance
  \/ SellGetEthPrice
  \/ MainSkipped
  \/ MainSuccess
  \/ MainCatch

Spec == Init /\ [][Next]_vars

\* main is an async function on the event loop: a continuation whose awaited
\* promise has settled is run, so an invocation that can take a step does.
LiveSpec == Spec /\ WF_vars(Next)

\* ------------------------------------------------------------- the logger
\* The number of hex digits of a private key: the 64 of /(0x)?[a-fA-F0-9]{64}/gi
\* at a smaller scale.
KeyHexDigits == 4

\* A JavaScript value that is logged: a string (its characters), a number, an
\* array, a plain object (its entries in order) or an Error.
Str(s) == [t |-> "str", s |-> s]
Num(n) == [t |-> "num", n |-> n]
Arr(items) == [t |-> "arr", items |-> items]
Obj(entries) == [t |-> "obj", entries |-> entries]
ErrorObject(name, message, code, stack) ==
  [t |-> "err", name |-> name, message |-> message, code |-> code, stack |-> stack]
Entry(k, v) == [k |-> k, v |-> v]

\* [a-fA-F0-9] among the characters the strings are written with.
HexChars == {"a", "F", "0", "1"}

\* part_000:497: [a-fA-F0-9]{64} matches at position i.
HexRunAt(s, i, n) ==
  /\ i + n - 1 <= Len(s)
  /\ \A j \in 0..(n - 1) : s[i + j] \in HexChars

\* part_000:497: the length of the match of /(0x)?[a-fA-F0-9]{64}/gi at position
\* i, 0 when there is none; the prefix is tried first (case-insensitively) and
\* given up when the digits do not follow it.
MatchLengthAt(s, i) ==
  IF /\ i + 1 <= Len(s)
     /\ s[i] = "0"
     /\ s[i + 1] \in {"x", "X"}
     /\ HexRunAt(s, i + 2, KeyHexDigits)
    THEN KeyHexDigits + 2
    ELSE IF HexRunAt(s, i, KeyHexDigits) THEN KeyHexDigits ELSE 0

\* part_000:510-512: String.prototype.replace with the global private-key
\* pattern, from position i on: matches are taken leftmost first and do not
\* overlap.  The strings logged here hold no "api key" and no "bearer", so the
\* other two patterns leave them as they are.
RECURSIVE ReplaceFrom(_, _)
ReplaceFrom(s, i) ==
  IF i > Len(s)
    THEN <<>>
    ELSE LET m == MatchLengthAt(s, i)
         IN  IF m > 0
               THEN <<"[PRIVATE_KEY_REDACTED]">> \o ReplaceFrom(s, i + m)
               ELSE <<s[i]>> \o ReplaceFrom(s, i + 1)

\* part_000:508-514
MaskString(s) == ReplaceFrom(s, 1)

\* The characters of the keys of logged objects and of the parts looked for in
\* them.
KeyChars ==
  "privatekey" :> <<"p", "r", "i", "v", "a", "t", "e", "k", "e", "y">>
  @@ "private_key" :> <<"p", "r", "i", "v", "a", "t", "e", "_", "k", "e", "y">>
  @@ "secret" :> <<"s", "e", "c", "r", "e", "t">>
  @@ "password" :> <<"p", "a", "s", "s", "w", "o", "r", "d">>
  @@ "mnemonic" :> <<"m", "n", "e", "m", "o", "n", "i", "c">>
  @@ "seed" :> <<"s", "e", "e", "d">>
  @@ "privateKey" :> <<"p", "r", "i", "v", "a", "t", "e", "K", "e", "y">>
  @@ "PRIVATE_KEY" :> <<"P", "R", "I", "V", "A", "T", "E", "_", "K", "E", "Y">>
  @@ "walletSecret" :> <<"w", "a", "l", "l", "e", "t", "S", "e", "c", "r", "e", "t">>
  @@ "seedPhrase" :> <<"s", "e", "e", "d", "P", "h", "r", "a", "s", "e">>
  @@ "txHash" :> <<"t", "x", "H", "a", "s", "h">>
  @@ "data" :> <<"d", "a", "t", "a">>
  @@ "name" :> <<"n", "a", "m", "e">>
  @@ "message" :> <<"m", "e", "s", "s", "a", "g", "e">>
  @@ "code" :> <<"c", "o", "d", "e">>
  @@ "stack" :> <<"s", "t", "a", "c", "k">>

\* part_000:536-542
IsSensitiveKey(key) ==
  LET lowerKey == ToLowerCase(key)
  IN  \/ Includes(lowerKey, KeyChars["privatekey"])
      \/ Includes(lowerKey, KeyChars["private_key"])
      \/ Includes(lowerKey, KeyChars["secret"])
      \/ Includes(lowerKey, KeyChars["password"])
      \/ Includes(lowerKey, KeyChars["mnemonic"])
      \/ Includes(lowerKey, KeyChars["seed"])

\* part_000:507-565
RECURSIVE maskValue(_)
maskValue(value) ==
  CASE value.t = "str" -> Str(MaskString(value.s))
    [] value.t = "arr" ->
         Arr([i \in DOMAIN value.items |-> maskValue(value.items[i])])
    [] value.t = "err" ->
         Obj(<<Entry(KeyChars["name"], value.name),
               Entry(KeyChars["message"], maskValue(value.message)),
               Entry(KeyChars["code"], value.code),
               Entry(KeyChars["stack"], maskValue(value.stack))>>)
    [] value.t = "obj" ->
         Obj([i \in DOMAIN value.entries |->
                LET e == value.entries[i]
                IN  IF IsSensitiveKey(e.k)
                      THEN Entry(e.k, Str(<<"[REDACTED]">>))
                      ELSE Entry(e.k, maskValue(e.v))])
    [] OTHER -> value

\* part_000:571-583: the message is masked, and each other field of the record
\* is replaced by maskValue of its value, whatever its key is.
maskSensitiveData(info) ==
  [message |-> maskValue(info.message),
   fields |-> [i \in DOMAIN info.fields |->
                 Entry(info.fields[i].k, maskValue(info.fields[i].v))]]

\* The strings logged: a run of hex digits of a key's length, alternating case.
HexRun(n) == [i \in 1..n |-> IF i % 2 = 1 THEN "a" ELSE "F"]
KeyBare == HexRun(KeyHexDigits)
KeyPrefixed == <<"0", "x">> \o KeyBare
\* A secret that is not a run of hex digits, as a password or a mnemonic is.
Phrase == <<"g", "g">>
LoggedStrings ==
  {KeyBare, KeyPrefixed, Phrase,
   <<"g", " ">> \o KeyPrefixed \o <<" ", "g">>,
   KeyBare \o <<" ">> \o KeyPrefixed,
   HexRun(KeyHexDigits - 1),
   <<"0", "x">> \o HexRun(KeyHexDigits - 1),
   <<"0", "0", "X">> \o KeyBare \o <<"1">>}
SecretStrings == {KeyPrefixed, Phrase}

\* The keys of metadata fields and of the objects in them.
LoggedKeys ==
  {KeyChars[k] : k \in {"privateKey", "PRIVATE_KEY", "walletSecret", "password", "mnemonic",
                        "seedPhrase", "txHash", "data"}}

\* The values of metadata fields: strings, arrays, objects one and two levels
\* deep, errors and numbers.
LoggedValues ==
  {Str(s) : s \in SecretStrings}
  \cup {Arr(<<Str(s), Num(1)>>) : s \in SecretStrings}
  \cup {Obj(<<Entry(k, Str(s))>>) : k \in LoggedKeys, s \in SecretStrings}
  \cup {Obj(<<Entry(KeyChars["data"], Obj(<<Entry(k, Str(Phrase))>>))>>) : k \in LoggedKeys}
  \cup {ErrorObject(Str(<<"g">>), Str(s), Num(TX_FAILED), Str(<<"g", " ">> \o s)) :
          s \in SecretStrings}
  \cup {Num(1)}

\* logger.info(message, meta) of a session logger (part_000:788-791): the record
\* winston hands to each transport's format.
LogRecords ==
  {[message |-> Str(m), fields |-> <<Entry(k, v)>>] :
     m \in LoggedStrings, k \in LoggedKeys, v \in LoggedValues}

\* ------------------------------------------------- the functions on their own
\* The arguments each function is called with.
ExpectedOutputs == (0..MaxExpected) \cup {LargeAmount, 10 * LargeAmount}
\* Slippage percentages in thousandths of a percent, each a multiple of 1/8
\* percent, for which slippagePercent * 100 is exact in a Number.
SlippagePercents == {0, 125, 500, 1000, 5000, 50000, 99875, 100000}
\* Buy amounts in cents and base prices in whole dollars.
TargetCents == {100, 500, 550, 857, 900, 1000}
BasePrices == {1000} \cup OraclePrices \cup {FALLBACK_ETH_PRICE}

\* process.env.SLIPPAGE_TOLERANCE: not set, or a number of percent (here in
\* thousandths of a percent); validateTradeConfig (part_000:483) takes any
\* number, 150 percent as well.
SlippageEnvs == {Unset, 0, 500, 1000, 5000, 50000, 100000, 150000}

\* part_000:120-122 / 164-166
UpdateDryRunQuote(best, fee, amountOut) ==
  IF best = NullQuote \/ amountOut > best.amountOut
    THEN [fee |-> fee, amountOut |-> amountOut]
    ELSE best

\* What the quoter does with one probe: staticCall resolves with amountOut, or
\* it rejects.
ProbeResolves(amountOut) == [resolved |-> TRUE, amountOut |-> amountOut]
ProbeRejects == [resolved |-> FALSE, amountOut |-> NotRead]
ProbeOutcomes == {ProbeResolves(a) : a \in QuoteAmounts} \cup {ProbeRejects}
\* One outcome for each tier of POOL_FEE_TIERS, in the order probed.
ProbeOutcomeLists == [1..Len(POOL_FEE_TIERS) -> ProbeOutcomes]

\* trading.js:79-103: the loop of findBestPoolFee from tier k on, over the given
\* probe outcomes; a rejected probe leaves bestQuote as it is.
RECURSIVE FindBestPoolFeeLoop(_, _, _)
FindBestPoolFeeLoop(outcomes, k, best) ==
  IF k > Len(POOL_FEE_TIERS) THEN best
  ELSE FindBestPoolFeeLoop(outcomes, k + 1,
         IF outcomes[k].resolved
           THEN UpdateBestQuote(best, POOL_FEE_TIERS[k], outcomes[k].amountOut)
           ELSE best)

\* trading.js:74-115: findBestPoolFee over the given probe outcomes: the quote
\* returned, or no quote when it throws NO_LIQUIDITY.
FindBestPoolFeeOver(outcomes) ==
  LET best == FindBestPoolFeeLoop(outcomes, 1, InitialBestQuote)
  IN  IF NoQuoteFound(best)
        THEN [noLiquidity |-> TRUE, quote |-> NullQuote]
        ELSE [noLiquidity |-> FALSE, quote |-> best]

\* part_000:108-127: the buy quote loop of the dry run from tier k on.
RECURSIVE DryRunQuoteLoop(_, _, _)
DryRunQuoteLoop(outcomes, k, best) ==
  IF k > Len(POOL_FEE_TIERS) THEN best
  ELSE DryRunQuoteLoop(outcomes, k + 1,
         IF outcomes[k].resolved
           THEN UpdateDryRunQuote(best, POOL_FEE_TIERS[k], outcomes[k].amountOut)
           ELSE best)

\* part_000:107-137: the dry run's selection over the given probe outcomes: the
\* best quote shown, or no quote when it writes "No liquidity found".
DryRunQuoteOver(outcomes) ==
  LET best == DryRunQuoteLoop(outcomes, 1, NullQuote)
  IN  [noLiquidity |-> best = NullQuote, quote |-> best]

FunctionCalls ==
  {[fn |-> "calculateMinOutput", args |-> <<e, s>>, value |-> NotRead] :
     e \in ExpectedOutputs, s \in SlippagePercents}
  \cup {[fn |-> "generateRandomBuyAmount", args |-> <<k>>, value |-> NotRead] :
           k \in 0..(RandomSteps - 1)}
  \cup {[fn |-> "wethAmountWei", args |-> <<c, p>>, value |-> NotRead] :
           c \in TargetCents, p \in BasePrices}
  \cup {[fn |-> "maskSensitiveData", args |-> <<info>>, value |-> NotRead] :
           info \in LogRecords}
  \cup {[fn |-> "configuredMinOutput", args |-> <<env, e>>, value |-> NotRead] :
           env \in SlippageEnvs, e \in ExpectedOutputs}
  \cup {[fn |-> "selectQuote", args |-> <<outcomes>>, value |-> NotRead] :
           outcomes \in ProbeOutcomeLists}

FunctionsInit ==
  /\ kind = "BUY"
  /\ pc = "call"
  /\ fnCall \in FunctionCalls
  /\ gasPrice = MAX_GAS_PRICE_GWEI
  /\ dryRun = NoDryRun
  /\ rpc = NoRpc
  /\ overlap = NoOverlap
  /\ FlowNotStarted

\* What a call of a function on its own leaves alone.
flowVars == <<kind, slippageTolerance, amountUsd, amountIn, wethBalance, ethBalance, idx,
              probes, bestQuote, minAmountOut, allowance, retry, submissions, approval, swap,
              swapLatency, error, result, outcome, maxGasPrice, ethPrice, gasPrice, dryRun,
              rpc, overlap>>

\* trading.js:123-126
CallCalculateMinOutput ==
  /\ pc = "call"
  /\ fnCall.fn = "calculateMinOutput"
  /\ fnCall' = [fnCall EXCEPT !.value = calculateMinOutput(fnCall.args[1], fnCall.args[2])]
  /\ pc' = "done"
  /\ UNCHANGED flowVars

\* trading.js:132-137
CallGenerateRandomBuyAmount ==
  /\ pc = "call"
  /\ fnCall.fn = "generateRandomBuyAmount"
  /\ fnCall' = [fnCall EXCEPT !.value = generateRandomBuyAmount(fnCall.args[1])]
  /\ pc' = "done"
  /\ UNCHANGED flowVars

\* trading.js:166-167
CallWethAmountWei ==
  /\ pc = "call"
  /\ fnCall.fn = "wethAmountWei"
  /\ fnCall' = [fnCall EXCEPT !.value = WethAmountWei(fnCall.args[1], fnCall.args[2])]
  /\ pc' = "done"
  /\ UNCHANGED flowVars

\* part_000:700-704 / 713-717: maskSensitiveData() in a transport's format.
CallMaskSensitiveData ==
  /\ pc = "call"
  /\ fnCall.fn = "maskSensitiveData"
  /\ fnCall' = [fnCall EXCEPT !.value = maskSensitiveData(fnCall.args[1])]
  /\ pc' = "done"
  /\ UNCHANGED flowVars

\* buy.js:52-58 / sell.js:52-58 with validateTradeConfig (part_000:483), then
\* trading.js:194 / 335: the tolerance main configures from the environment and
\* the minimum output computed with it.
CallConfiguredMinOutput ==
  /\ pc = "call"
  /\ fnCall.fn = "configuredMinOutput"
  /\ LET tolerance == ConfiguredSlippage(fnCall.args[1])
     IN  fnCall' = [fnCall EXCEPT
                      !.value = [slippageTolerance |-> tolerance,
                                 minAmountOut |-> calculateMinOutput(fnCall.args[2],
                                                                     tolerance)]]
  /\ pc' = "done"
  /\ UNCHANGED flowVars

\* trading.js:74-115 and part_000:107-137 over the same probe outcomes.
CallSelectQuote ==
  /\ pc = "call"
  /\ fnCall.fn = "selectQuote"
  /\ fnCall' = [fnCall EXCEPT
                  !.value = [findBestPoolFee |-> FindBestPoolFeeOver(fnCall.args[1]),
                             dryRun |-> DryRunQuoteOver(fnCall.args[1])]]
  /\ pc' = "done"
  /\ UNCHANGED flowVars

FunctionsNext ==
  \/ CallSelectQuote
  \/ CallMaskSensitiveData
  \/ CallConfiguredMinOutput
  \/ CallCalculateMinOutput
  \/ CallGenerateRandomBuyAmount
  \/ CallWethAmountWei

FunctionsSpec == FunctionsInit /\ [][FunctionsNext]_vars

\* ---------------------------------------------------------------- properties
\* The probes of the findBestPoolFee call that has just ended (the log is
\* dropped when approveToken starts).
QuotingOver == Len(probes) = Len(POOL_FEE_TIERS) /\ pc # "quote"
OkProbes == {i \in 1..Len(probes) : probes[i].ok}
MaxOkAmount ==
  CHOOSE m \in {probes[i].amountOut : i \in OkProbes} :
    \A i \in OkProbes : probes[i].amountOut <= m
FirstBest ==
  CHOOSE i \in OkProbes :
    /\ probes[i].amountOut = MaxOkAmount
    /\ \A j \in OkProbes : probes[j].amountOut = MaxOkAmount => i <= j

\* The error messages of ClientErrors that contain, in any letter case, one of
\* the six fatal substrings.
FatalMessages ==
  {"insufficient funds for gas", "Nonce too low", "replacement fee too low",
   "ALREADY KNOWN", "invalid private key", "Execution Reverted: STF"}

\* The callback calls of the executeWithRetry call in `retry`.
IsCurrentSubmission(s) ==
  s.type = IF retry.operationName = "Token approval" THEN "APPROVAL" ELSE "SWAP"
CurrentSubmissions == SelectSeq(submissions, IsCurrentSubmission)

SwapIndexes == {i \in 1..Len(submissions) : submissions[i].type = "SWAP"}
ApprovalIndexes == {i \in 1..Len(submissions) : submissions[i].type = "APPROVAL"}

\* C1: whenever at least one fee tier yields a quote, findBestPoolFee returns
\* the quote with the greatest output among the successful probes, the earliest
\* probed of them on a tie.
C1_BestQuoteReturned ==
  (QuotingOver /\ OkProbes # {}) =>
    /\ pc = "approve"
    /\ bestQuote = [fee |-> probes[FirstBest].params.fee, amountOut |-> MaxOkAmount]

\* C2: when every fee tier's probe fails, findBestPoolFee throws the
\* NO_LIQUIDITY error carrying tokenIn and tokenOut; and a quote it returns
\* never has a zero output amount.
C2_AllFailNoLiquidity ==
  /\ (QuotingOver /\ OkProbes = {}) =>
       /\ pc \in {"threw", "exited"}
       /\ error.name = "BlockchainError"
       /\ error.code = 4003
       /\ error.details = IF kind = "BUY" THEN [tokenIn |-> "WETH", tokenOut |-> "TOKEN"]
                                          ELSE [tokenIn |-> "TOKEN", tokenOut |-> "WETH"]
  /\ pc = "approve" => bestQuote.amountOut > 0

C2_Witness == QuotingOver /\ OkProbes = {} /\ pc = "threw" /\ error.code = 4003

\* C3: a SELL that reads a token balance of 0 returns the skipped result and
\* makes no quote probe and no approval or swap submission; main reports
\* Skipped and exits with status 0.
C3_SellZeroSkipped ==
  (kind = "SELL" /\ amountIn = 0) =>
    /\ pc \in {"returned", "exited"}
    /\ result = [success |-> TRUE, skipped |-> TRUE, reason |-> "No tokens to sell"]
    /\ idx = 1
    /\ probes = <<>>
    /\ submissions = <<>>
    /\ pc = "exited" => (outcome.status = "Skipped" /\ outcome.exit = 0)

C3_Witness == kind = "SELL" /\ amountIn = 0 /\ pc = "exited" /\ outcome.status = "Skipped"

\* C4: a SELL that reads a token balance B > 0 quotes B, approves B and swaps
\* B on every attempt.
C4_SellWholeBalance ==
  (kind = "SELL" /\ amountIn > 0) =>
    /\ \A i \in 1..Len(probes) : probes[i].params.amountIn = amountIn
    /\ \A i \in 1..Len(submissions) : submissions[i].amountIn = amountIn

C4_Witness ==
  /\ kind = "SELL"
  /\ amountIn = MaxBalance
  /\ Cardinality(SwapIndexes) >= 2
  /\ \E i \in ApprovalIndexes : submissions[i].accepted

\* C5: an error with a fatal substring in its message, in any letter case, ends
\* executeWithRetry at that attempt with that same error and no delay after
\* it; raised by the first attempt it means one attempt and no delay at all.
C5_FatalErrorOneAttempt ==
  \A i \in 1..Len(retry.errors) :
    retry.errors[i].message \in FatalMessages =>
      /\ i = Len(retry.errors)
      /\ retry.calls = i
      /\ Len(retry.delays) = i - 1
      /\ retry.status = "threw"
      /\ pc \in {"threw", "exited"}
      /\ error = retry.errors[i]

C5_Witness ==
  /\ retry.status = "threw"
  /\ retry.calls = 1
  /\ retry.delays = <<>>
  /\ retry.errors[1].message = "ALREADY KNOWN"
  /\ error.message = "ALREADY KNOWN"

\* C6: after k retryable failures (k < 3) and then a success executeWithRetry
\* returns at once, having made k + 1 calls and slept k times, 2000 ms and then
\* 4000 ms.
C6_SuccessAfterRetries ==
  /\ retry.status = "returned" =>
       LET k == Len(retry.errors)
       IN  /\ k < 3
           /\ retry.calls = k + 1
           /\ retry.delays = SubSeq(<<2000, 4000>>, 1, k)
           /\ \A i \in 1..k : retry.errors[i].message \notin FatalMessages
           /\ Len(CurrentSubmissions) = k + 1
  /\ \A i \in 1..Len(CurrentSubmissions) :
       CurrentSubmissions[i].accepted =>
         (retry.status = "returned" /\ i = Len(CurrentSubmissions))

C6_Witness ==
  /\ retry.status = "returned"
  /\ retry.calls = 3
  /\ retry.delays = <<2000, 4000>>
  /\ Len(CurrentSubmissions) = 3
  /\ CurrentSubmissions[3].accepted

\* C7: three retryable failures in a row end executeWithRetry after exactly
\* three calls and two sleeps (2000 ms, 4000 ms, none after the last call) with
\* the TX_FAILED error that carries the last error's message.
C7_RetriesExhausted ==
  /\ retry.calls <= 3
  /\ (Len(retry.errors) = 3 /\ \A i \in 1..3 : retry.errors[i].message \notin FatalMessages)
       => retry.status = "exhausted"
  /\ retry.status = "exhausted" =>
       /\ retry.calls = 3
       /\ Len(retry.errors) = 3
       /\ retry.delays = <<2000, 4000>>
       /\ pc \in {"threw", "exited"}
       /\ error.name = "BlockchainError"
       /\ error.code = 3003
       /\ error.details = [lastError |-> retry.errors[3].message]

C7_Witness ==
  /\ retry.status = "exhausted"
  /\ retry.errors[3].message = "Network error: nonce low"
  /\ error.details = [lastError |-> "Network error: nonce low"]

\* C8: when the allowance read is at least the input amount no approval is
\* submitted and the flow is at the swap.
C8_SufficientAllowanceNoApproval ==
  (allowance # NotRead /\ allowance >= amountIn) =>
    /\ ApprovalIndexes = {}
    /\ pc \in {"swap_submit", "swap_wait", "post_first", "post_second", "post_price",
               "returned", "threw", "exited"}
    /\ retry.operationName \in {"Buy swap", "Sell swap"}
    /\ submissions = <<>> => pc = "swap_submit"

C8_Witness ==
  /\ allowance = amountIn
  /\ ApprovalIndexes = {}
  /\ \E i \in SwapIndexes : submissions[i].accepted

\* C9: when the allowance read is below the input amount, a swap is submitted
\* only after an approval was submitted and confirmed with success status; an
\* approval that fails, reverts or is never confirmed is followed by no swap.
C9_SwapOnlyAfterConfirmedApproval ==
  (allowance # NotRead /\ allowance < amountIn) =>
    /\ (SwapIndexes # {} \/ pc \in {"swap_submit", "swap_wait", "post_first",
                                    "post_second", "post_price", "returned"}) =>
         /\ approval = "confirmed"
         /\ \E j \in ApprovalIndexes :
              /\ submissions[j].accepted
              /\ \A i \in SwapIndexes : j < i
    /\ approval # "confirmed" => swap = "none"

C9_Witness ==
  /\ allowance # NotRead
  /\ allowance < amountIn
  /\ approval = "confirmed"
  /\ \E i \in SwapIndexes : submissions[i].accepted

\* C10: a swap that tx.wait() has not confirmed when the 120 s timer fires ends
\* the invocation in Failure, the swap having been submitted once and never
\* again, and the failure reported differs from the one reported for a
\* reverted transaction.
C10_TimeoutFailsWithoutResubmission ==
  /\ (swapLatency = NeverSettles \/ swapLatency > 120000) =>
       /\ swap = "timeout"
       /\ pc \in {"threw", "exited"}
       /\ Cardinality({i \in SwapIndexes : submissions[i].accepted}) = 1
       /\ submissions[Len(submissions)].type = "SWAP"
       /\ submissions[Len(submissions)].accepted
       /\ error.message = "Transaction confirmation timeout"
       /\ error.code # 3004
       /\ pc = "exited" =>
            /\ outcome.status = "Failure"
            /\ outcome.exit = 1
            /\ outcome.message # "Transaction reverted"
            /\ outcome.code # 3004
  /\ (swapLatency # NotRead /\ swapLatency # NeverSettles /\ swapLatency < 120000) =>
       swap # "timeout"
  /\ (swap = "reverted" /\ pc = "exited") =>
       /\ outcome.status = "Failure"
       /\ outcome.message = "Transaction reverted"
       /\ outcome.code = 3004

C10_Witness ==
  /\ swapLatency = 120001
  /\ swap = "timeout"
  /\ pc = "exited"
  /\ outcome.status = "Failure"

\* C11: an approval or swap transaction included with a non-success status ends
\* the invocation in a Failure that carries TX_REVERTED, no swap following a
\* reverted approval; and Success is reported only when the swap's receipt has
\* success status and so has the approval's, if one was submitted.
C11_NonSuccessReceiptIsReverted ==
  /\ approval = "reverted" =>
       /\ pc \in {"threw", "exited"}
       /\ error.name = "BlockchainError"
       /\ error.code = 3004
       /\ SwapIndexes = {}
       /\ pc = "exited" =>
            (outcome.status = "Failure" /\ outcome.exit = 1 /\ outcome.code = 3004)
  /\ swap = "reverted" =>
       /\ pc \in {"threw", "exited"}
       /\ error.name = "BlockchainError"
       /\ error.code = 3004
       /\ pc = "exited" =>
            (outcome.status = "Failure" /\ outcome.exit = 1 /\ outcome.code = 3004)
  /\ outcome.status = "Success" =>
       /\ swap = "confirmed"
       /\ approval \in {"skipped", "confirmed"}

C11_Witness ==
  /\ approval = "reverted"
  /\ pc = "exited"
  /\ outcome.status = "Failure"
  /\ outcome.code = 3004

\* C12: for an expected output E >= 0 and a slippage tolerance S in [0, 100]
\* calculateMinOutput(E, S) lies in 0..E, and calculateMinOutput(E, 0) is E.
C12_MinOutputWithinExpected ==
  (fnCall.fn = "calculateMinOutput" /\ pc = "done") =>
    LET E == fnCall.args[1]
        S == fnCall.args[2]
    IN  /\ (E >= 0 /\ S >= 0 /\ S <= 100 * 1000) =>
             (fnCall.value >= 0 /\ fnCall.value <= E)
        /\ (E >= 0 /\ S = 0) => fnCall.value = E

C12_Witness ==
  /\ fnCall.fn = "calculateMinOutput"
  /\ pc = "done"
  /\ fnCall.args[1] > 0
  /\ fnCall.args[2] = 0
  /\ fnCall.value = fnCall.args[1]

\* C13: calculateMinOutput(E, S) is E - floor(E * round(S * 100) / 10000), the
\* tolerance rounded to the nearest basis point and the deduction rounded
\* down; E = 1000 and S = 5 give 950.
C13_RoundedBasisPoints ==
  (fnCall.fn = "calculateMinOutput" /\ pc = "done") =>
    LET E == fnCall.args[1]
        S == fnCall.args[2]
        roundedBps == (S + 5) \div 10
    IN  /\ fnCall.value = E - ((E * roundedBps) \div 10000)
        /\ (E = 1000 /\ S = 5000) => fnCall.value = 950

\* C14: a BUY that has read an ETH balance below the gas reserve or a WETH
\* balance below the input amount ends in the INSUFFICIENT_BALANCE failure
\* naming the balance that was short (ETH when both are), having made no quote
\* probe and no approval or swap submission.
C14_InsufficientBalanceStopsBuy ==
  (kind = "BUY" /\ ethBalance # NotRead
     /\ (ethBalance < EthUnit \div 1000 \/ wethBalance < amountIn)) =>
    /\ pc \in {"threw", "exited"}
    /\ error.name = "ValidationError"
    /\ error.code = 3001
    /\ error.details.token = IF ethBalance < EthUnit \div 1000 THEN "ETH (for gas)" ELSE "WETH"
    /\ error.message = "Insufficient " \o error.details.token \o " balance"
    /\ idx = 1
    /\ probes = <<>>
    /\ submissions = <<>>
    /\ pc = "exited" =>
         (outcome.status = "Failure" /\ outcome.exit = 1 /\ outcome.code = 3001)

C14_Witness ==
  /\ kind = "BUY"
  /\ ethBalance = EthUnit \div 1000
  /\ wethBalance = amountIn - 1
  /\ pc = "exited"
  /\ outcome.code = 3001
  /\ outcome.message = "Insufficient WETH balance"

\* C15: the BUY input amount differs from targetUsd / basePriceUsd by less than
\* one smallest unit, and for targetUsd = 5 and basePriceUsd = 2500 it is
\* exactly 0.002 base units.
C15_InputAmountWithinOneUnit ==
  (fnCall.fn = "wethAmountWei" /\ pc = "done") =>
    LET cents == fnCall.args[1]
        price == fnCall.args[2]
        exactTimesDivisor == cents * EthUnit
        valueTimesDivisor == fnCall.value * 100 * price
    IN  /\ valueTimesDivisor - exactTimesDivisor < 100 * price
        /\ exactTimesDivisor - valueTimesDivisor < 100 * price
        /\ (cents = 500 /\ price = 2500) => fnCall.value * 1000 = 2 * EthUnit

\* C16: for every Math.random() result in [0, 1) generateRandomBuyAmount
\* returns a whole number of cents between MIN_BUY_AMOUNT_USD (1 dollar) and
\* MAX_BUY_AMOUNT_USD (10 dollars), both included.
C16_RandomAmountInRange ==
  (fnCall.fn = "generateRandomBuyAmount" /\ pc = "done") =>
    /\ fnCall.value \in Nat
    /\ fnCall.value >= 1 * 100
    /\ fnCall.value <= 10 * 100

C16_Witness ==
  /\ fnCall.fn = "generateRandomBuyAmount"
  /\ pc = "done"
  /\ fnCall.args[1] = RandomSteps - 1
  /\ fnCall.value = 10 * 100

\* C17: every invocation terminates, with one of the outcomes Success, Skipped
\* and Failure: Success and Skipped with exit status 0, Failure with exit
\* status 1, Skipped only for a SELL that read a balance of 0.
C17_TerminatesWithOneOutcome ==
  <>(/\ pc = "exited"
     /\ \/ outcome.status \in {"Success", "Skipped"} /\ outcome.exit = 0
        \/ outcome.status = "Failure" /\ outcome.exit = 1
     /\ outcome.status = "Skipped" => (kind = "SELL" /\ amountIn = 0))

\* C18: the wait for the approval's confirmation and the wait for the swap's
\* both end, with a receipt or a timeout failure, also when the chain never
\* includes the transaction; the invocation is never left waiting.
C18_ConfirmationWaitsBounded ==
  /\ approval = "never_confirmed" => pc \in {"threw", "exited"}
  /\ swapLatency = NeverSettles =>
       (swap = "timeout" /\ pc \in {"threw", "exited"})
  /\ pc # "hung"

\* C19: findBestPoolFee probes the tiers 3000, 10000 and 500 in that order,
\* each once, and a probe that fails does not end the loop: when the call is
\* over all three have been probed, whatever each answered.
C19_EveryTierProbedInOrder ==
  /\ Len(probes) <= 3
  /\ \A i \in 1..Len(probes) :
       /\ probes[i].params.fee = <<3000, 10000, 500>>[i]
       /\ probes[i].params.amountIn = amountIn
  /\ pc = "quote" => Len(probes) = idx - 1
  /\ (pc # "quote" /\ probes # <<>>) => Len(probes) = 3

C19_Witness ==
  /\ Len(probes) = 3
  /\ ~probes[1].ok
  /\ ~probes[2].ok
  /\ probes[3].ok
  /\ pc = "approve"
  /\ bestQuote.fee = 500

\* C20: findBestPoolFee throws NO_LIQUIDITY exactly when no tier's probe
\* succeeded; when one succeeded, whatever amount it reported, a quote is
\* returned and its fee is that of a tier whose probe succeeded.
C20_NoLiquidityIffNoProbeSucceeded ==
  QuotingOver =>
    /\ (pc \in {"threw", "exited"} /\ error.code = 4003) <=> OkProbes = {}
    /\ OkProbes # {} =>
         /\ pc = "approve"
         /\ bestQuote.fee \in {probes[i].params.fee : i \in OkProbes}

\* C21: while the network gas price exceeds the configured maximum no approval
\* and no swap is submitted, and an invocation that got as far as the approval
\* check ends in the failure that says the gas price is too high (GAS_TOO_HIGH).
C21_NoSubmissionAboveMaxGasPrice ==
  (maxGasPrice # NotRead /\ gasPrice > maxGasPrice) =>
    /\ submissions = <<>>
    /\ approval \in {"none", "skipped"}
    /\ swap = "none"
    /\ (allowance # NotRead /\ pc = "exited") =>
         (outcome.status = "Failure" /\ outcome.code = 3005)

\* C22: every swap that is submitted carries a deadline, a wall-clock bound after
\* which it cannot be executed.
C22_EverySwapHasDeadline ==
  \A i \in 1..Len(submissions) :
    submissions[i].type = "SWAP" => submissions[i].deadline # NoDeadline

\* C23: the steps of one invocation come in the order quote selection, minimum
\* output, approval check, swap submission, confirmation wait.  A swap is only
\* submitted once every fee tier has been probed and a quote selected, after the
\* allowance has been read and any approval confirmed; its fee tier is the
\* selected quote's and its amountOutMinimum is the selected quote's amount less
\* the slippage deduction.  The confirmation wait only follows a submitted swap.
C23_SwapFollowsSelectedQuote ==
  /\ \A i \in 1..Len(submissions) :
       submissions[i].type = "SWAP" =>
         /\ idx > Len(POOL_FEE_TIERS)
         /\ bestQuote.amountOut > 0
         /\ \E t \in 1..Len(POOL_FEE_TIERS) : POOL_FEE_TIERS[t] = bestQuote.fee
         /\ submissions[i].fee = bestQuote.fee
         /\ submissions[i].amountOutMinimum =
              bestQuote.amountOut
                - (bestQuote.amountOut * (slippageTolerance \div 10)) \div 10000
         /\ allowance # NotRead
         /\ approval \in {"skipped", "confirmed"}
  /\ pc \in {"approve", "approve_submit", "approve_wait", "swap_submit"} =>
       (idx > Len(POOL_FEE_TIERS) /\ bestQuote.amountOut > 0)
  /\ pc \in {"swap_wait", "post_first", "post_second", "post_price"} =>
       (\E i \in 1..Len(submissions) :
          submissions[i].type = "SWAP" /\ submissions[i].accepted)
  /\ swap # "none" =>
       (\E i \in 1..Len(submissions) :
          submissions[i].type = "SWAP" /\ submissions[i].accepted)

\* A swap submitted at the second-best tier's turn: the first tier quoted less
\* than a later one, and the minimum is below the quoted amount.
C23_Witness ==
  /\ pc = "swap_wait"
  /\ \E i \in 1..Len(submissions) :
       /\ submissions[i].type = "SWAP"
       /\ submissions[i].accepted
       /\ submissions[i].fee = bestQuote.fee
       /\ submissions[i].fee # POOL_FEE_TIERS[1]
       /\ submissions[i].amountOutMinimum < bestQuote.amountOut
       /\ submissions[i].amountOutMinimum > 0

\* C24: when quote selection ends with the no-liquidity error the invocation
\* fails at once: the error goes to main's handler and the run ends in Failure
\* with that error, each fee tier has been probed exactly once, the allowance
\* was never read and no approval or swap was submitted.
C24_NoLiquidityIsFatal ==
  error.code = NO_LIQUIDITY =>
    /\ pc \in {"threw", "exited"}
    /\ Len(probes) = Len(POOL_FEE_TIERS)
    /\ \A i \in 1..Len(probes) : probes[i].params.fee = POOL_FEE_TIERS[i]
    /\ submissions = <<>>
    /\ allowance = NotRead
    /\ approval = "none"
    /\ swap = "none"
    /\ pc = "exited" =>
         /\ outcome.status = "Failure"
         /\ outcome.exit = 1
         /\ outcome.code = NO_LIQUIDITY

\* A run that ended with the no-liquidity error after a tier's quoter call
\* rejected and another answered 0.
C24_Witness ==
  /\ pc = "exited"
  /\ error.code = NO_LIQUIDITY
  /\ outcome.status = "Failure"
  /\ Len(probes) = Len(POOL_FEE_TIERS)
  /\ \E i \in 1..Len(probes) : ~probes[i].ok
  /\ \E i \in 1..Len(probes) : probes[i].ok /\ probes[i].amountOut = 0

DryRunGasBuffer == (2 * EthUnit) \div 1000

\* part_000:86: the fixed price the dry run computes with.
DryRunEthPrice == FALLBACK_ETH_PRICE

\* The ETH balances the dry run reads: just enough for a buy and its gas
\* buffer, and one unit short.
DryRunEthBalances ==
  {WethAmountWei(generateRandomBuyAmount(k), DryRunEthPrice) + DryRunGasBuffer - d :
     k \in RandomDraws, d \in {0, 1}}

\* A request to the RPC endpoint: the JSON-RPC method, the contract and function.
Query(via, to, fn) == [via |-> via, to |-> to, fn |-> fn]

\* StaticCall that sends the call as a transaction.
StaticCall_Send(to, fn) == Query("eth_sendRawTransaction", to, fn)

\* part_000:117 / 161: quoter.quoteExactInputSingle.staticCall(quoteParams); the
\* ABI declares the function without `view` (constants.js:197), and staticCall
\* makes the request an eth_call.
StaticCall(to, fn) == Query("eth_call", to, fn)

\* blockchain.js:127-131 / 157: functions the ERC-20 ABI declares `view`.
ViewCall(to, fn) == Query("eth_call", to, fn)

\* What no step of the dry run assigns.
dryRunFrame == <<kind, slippageTolerance, amountUsd, amountIn, wethBalance, ethBalance, idx,
                 probes, bestQuote, minAmountOut, allowance, retry, submissions, approval,
                 swap, swapLatency, result, maxGasPrice, ethPrice, gasPrice, rpc, fnCall,
                 overlap>>

DryRunInit ==
  /\ kind = "DRY_RUN"
  /\ pc = "dry_validate"
  /\ gasPrice = MAX_GAS_PRICE_GWEI
  /\ dryRun = NoDryRun
  /\ rpc = NoRpc
  /\ overlap = NoOverlap
  /\ fnCall = NoCall
  /\ FlowNotStarted

\* part_000:44-58: validateEnvironment and validateTradeConfig.
DryRunValidateConfig ==
  /\ pc = "dry_validate"
  /\ \/ /\ pc' = "dry_connect"
        /\ error' = error
     \/ Throw(ValidationError("Missing required environment variables", MISSING_ENV_VAR,
                              [missing |-> "RPC_URL"]))
     \/ Throw(ValidationError("Invalid private key format", INVALID_PRIVATE_KEY,
                              [field |-> "privateKey"]))
  /\ UNCHANGED <<dryRun, outcome>>
  /\ UNCHANGED dryRunFrame

\* part_000:60-64: createProvider (getNetwork on the endpoint), createWallet
\* and getAddress, which make no request.
DryRunConnect ==
  /\ pc = "dry_connect"
  /\ dryRun' = [dryRun EXCEPT !.calls = Append(@, Query("eth_chainId", "provider",
                                                         "getNetwork"))]
  /\ \/ /\ pc' = "dry_eth_balance"
        /\ error' = error
     \/ Throw(RpcConnectionFailedError(Len(RpcUrls), ConnectionTimeoutError))
     \/ Throw(BlockchainError("Failed to create wallet from private key",
                              INVALID_PRIVATE_KEY, <<>>))
  /\ outcome' = outcome
  /\ UNCHANGED dryRunFrame

\* part_000:67 with getEthBalance (blockchain.js:177-189).
DryRunGetEthBalance ==
  /\ pc = "dry_eth_balance"
  /\ \/ \E balance \in DryRunEthBalances :
          /\ dryRun' = [dryRun EXCEPT !.ethBalance = balance,
                                      !.calls = Append(@, Query("eth_getBalance", "provider",
                                                                "getBalance"))]
          /\ pc' = "dry_token_info"
          /\ error' = error
     \/ /\ dryRun' = [dryRun EXCEPT !.calls = Append(@, Query("eth_getBalance", "provider",
                                                               "getBalance"))]
        /\ Throw(BlockchainError("Failed to get ETH balance", RPC_CONNECTION_FAILED, <<>>))
  /\ outcome' = outcome
  /\ UNCHANGED dryRunFrame

\* part_000:68 with getTokenInfo (blockchain.js:124-137): three view calls, each
\* with a default for when it rejects.
DryRunGetTokenInfo ==
  /\ pc = "dry_token_info"
  /\ dryRun' = [dryRun EXCEPT !.calls = @ \o <<ViewCall("TOKEN", "name"),
                                               ViewCall("TOKEN", "symbol"),
                                               ViewCall("TOKEN", "decimals")>>]
  /\ pc' = "dry_token_balance"
  /\ UNCHANGED <<error, outcome>>
  /\ UNCHANGED dryRunFrame

\* part_000:69 with getTokenBalance (blockchain.js:154-168).
DryRunGetTokenBalance ==
  /\ pc = "dry_token_balance"
  /\ \/ \E balance \in 0..MaxBalance :
          /\ dryRun' = [dryRun EXCEPT !.tokenBalance = balance,
                                      !.calls = Append(@, ViewCall("TOKEN", "balanceOf"))]
          /\ pc' = "dry_buy"
          /\ error' = error
     \/ /\ dryRun' = [dryRun EXCEPT !.calls = Append(@, ViewCall("TOKEN", "balanceOf"))]
        /\ Throw(BlockchainError("Failed to get token balance", TOKEN_NOT_FOUND,
                                 [tokenAddress |-> "TOKEN"]))
  /\ outcome' = outcome
  /\ UNCHANGED dryRunFrame

\* part_000:82-98: the random amount, its ETH amount at the fixed price, and the
\* balance warning, which does not stop the run.
DryRunSimulateBuy ==
  /\ pc = "dry_buy"
  /\ \E k \in RandomDraws :
       LET buyAmountUsd == generateRandomBuyAmount(k)
           ethAmountWei == WethAmountWei(buyAmountUsd, DryRunEthPrice)
       IN  dryRun' = [dryRun EXCEPT
                        !.buyAmountUsd = buyAmountUsd,
                        !.ethAmountWei = ethAmountWei,
                        !.warned = (dryRun.ethBalance < ethAmountWei + DryRunGasBuffer),
                        !.idx = 1]
  /\ pc' = "dry_buy_quote"
  /\ UNCHANGED <<error, outcome>>
  /\ UNCHANGED dryRunFrame

\* part_000:106-127: one iteration of the buy quote loop.
DryRunBuyProbe ==
  /\ pc = "dry_buy_quote"
  /\ dryRun.idx <= Len(POOL_FEE_TIERS)
  /\ LET fee == POOL_FEE_TIERS[dryRun.idx]
         called == Append(dryRun.calls, StaticCall("QUOTER", "quoteExactInputSingle"))
     IN  \/ \E amountOut \in QuoteAmounts :
              dryRun' = [dryRun EXCEPT
                           !.bestQuote = UpdateDryRunQuote(@, fee, amountOut),
                           !.idx = @ + 1, !.calls = called]
         \/ dryRun' = [dryRun EXCEPT !.idx = @ + 1, !.calls = called]
  /\ UNCHANGED <<pc, error, outcome>>
  /\ UNCHANGED dryRunFrame

\* part_000:129-137: the minimum output of the best buy quote, if there is one.
DryRunBuyEnd ==
  /\ pc = "dry_buy_quote"
  /\ dryRun.idx > Len(POOL_FEE_TIERS)
  /\ LET q == dryRun.bestQuote
     IN  dryRun' = [dryRun EXCEPT
                      !.minOut = IF q # NullQuote
                                   THEN q.amountOut
                                          - BigIntDiv(q.amountOut
                                                        * (SLIPPAGE_TOLERANCE_PERCENT * 100),
                                                      10000)
                                   ELSE @,
                      !.idx = 1]
  /\ pc' = "dry_sell"
  /\ UNCHANGED <<error, outcome>>
  /\ UNCHANGED dryRunFrame

\* part_000:143-146: nothing is quoted for a token balance of 0.
DryRunSimulateSell ==
  /\ pc = "dry_sell"
  /\ pc' = IF dryRun.tokenBalance = 0 THEN "dry_done" ELSE "dry_sell_quote"
  /\ UNCHANGED <<dryRun, error, outcome>>
  /\ UNCHANGED dryRunFrame

\* part_000:150-170: one iteration of the sell quote loop.
DryRunSellProbe ==
  /\ pc = "dry_sell_quote"
  /\ dryRun.idx <= Len(POOL_FEE_TIERS)
  /\ LET fee == POOL_FEE_TIERS[dryRun.idx]
         called == Append(dryRun.calls, StaticCall("QUOTER", "quoteExactInputSingle"))
     IN  \/ \E amountOut \in QuoteAmounts :
              dryRun' = [dryRun EXCEPT
                           !.sellQuote = UpdateDryRunQuote(@, fee, amountOut),
                           !.idx = @ + 1, !.calls = called]
         \/ dryRun' = [dryRun EXCEPT !.idx = @ + 1, !.calls = called]
  /\ UNCHANGED <<pc, error, outcome>>
  /\ UNCHANGED dryRunFrame

\* part_000:172-177: the best sell quote is written to the console.
DryRunSellEnd ==
  /\ pc = "dry_sell_quote"
  /\ dryRun.idx > Len(POOL_FEE_TIERS)
  /\ pc' = "dry_done"
  /\ UNCHANGED <<dryRun, error, outcome>>
  /\ UNCHANGED dryRunFrame

\* part_000:179-188
DryRunComplete ==
  /\ pc = "dry_done"
  /\ outcome' = [status |-> "Complete", exit |-> 0, code |-> NoCode, message |-> NoMessage]
  /\ pc' = "exited"
  /\ UNCHANGED <<dryRun, error>>
  /\ UNCHANGED dryRunFrame

\* part_000:190-196
DryRunCatch ==
  /\ pc = "threw"
  /\ outcome' = [status |-> "Failure", exit |-> 1, code |-> error.code,
                 message |-> error.message]
  /\ pc' = "exited"
  /\ UNCHANGED <<dryRun, error>>
  /\ UNCHANGED dryRunFrame

DryRunNext ==
  \/ DryRunValidateConfig
  \/ DryRunConnect
  \/ DryRunGetEthBalance
  \/ DryRunGetTokenInfo
  \/ DryRunGetTokenBalance
  \/ DryRunSimulateBuy
  \/ DryRunBuyProbe
  \/ DryRunBuyEnd
  \/ DryRunSimulateSell
  \/ DryRunSellProbe
  \/ DryRunSellEnd
  \/ DryRunComplete
  \/ DryRunCatch

DryRunSpec == DryRunInit /\ [][DryRunNext]_vars

\* C26: every request the dry run makes, whatever the balances and whatever the
\* quoter answers, is a read-only query (chain id, balance, or eth_call); no
\* transaction is sent, so no approval and no swap is submitted.
C26_DryRunReadOnly ==
  /\ \A i \in 1..Len(dryRun.calls) :
       dryRun.calls[i].via \in {"eth_chainId", "eth_getBalance", "eth_call"}
  /\ submissions = <<>>
  /\ approval = "none"
  /\ swap = "none"

\* A dry run that completed after quoting both directions: the six quoter
\* calls are among its twelve requests, with a balance too small for the buy.
C26_Witness ==
  /\ pc = "exited"
  /\ outcome.exit = 0
  /\ dryRun.warned
  /\ dryRun.tokenBalance > 0
  /\ dryRun.bestQuote # NullQuote
  /\ dryRun.sellQuote # NullQuote
  /\ Len(dryRun.calls) = 12
  /\ \E i \in 1..Len(dryRun.calls) : dryRun.calls[i].fn = "quoteExactInputSingle"

\* A string holds a run of hex digits as long as a private key.
HasKeyRun(s) == \E i \in 1..Len(s) : HexRunAt(s, i, KeyHexDigits)

\* A key that names a private key, a secret, a password, a mnemonic or a seed.
NamesSecret(key) ==
  key \in {KeyChars[k] : k \in {"privateKey", "PRIVATE_KEY", "walletSecret", "password",
                                "mnemonic", "seedPhrase"}}

\* A value that is nothing but a redaction marker.
IsRedactionMarker(v) == v \in {Str(<<"[REDACTED]">>), Str(<<"[PRIVATE_KEY_REDACTED]">>)}

\* A field of a record, or an entry of an object in it, shows a secret.
RECURSIVE ExposesSecret(_)
EntryExposesSecret(e) ==
  \/ NamesSecret(e.k) /\ ~IsRedactionMarker(e.v)
  \/ ExposesSecret(e.v)
ExposesSecret(v) ==
  CASE v.t = "str" -> HasKeyRun(v.s)
    [] v.t = "arr" -> \E i \in DOMAIN v.items : ExposesSecret(v.items[i])
    [] v.t = "obj" -> \E i \in DOMAIN v.entries : EntryExposesSecret(v.entries[i])
    [] OTHER -> FALSE

\* C27: in the record a transport writes, no string of the message, of a
\* metadata field or of an error holds a run of hex digits as long as a private
\* key, and every value stored under a key naming a private key, secret,
\* password, mnemonic or seed, at any depth, is a redaction marker.
C27_LogRecordHidesSecrets ==
  (fnCall.fn = "maskSensitiveData" /\ pc = "done") =>
    /\ ~ExposesSecret(fnCall.value.message)
    /\ \A i \in DOMAIN fnCall.value.fields : ~EntryExposesSecret(fnCall.value.fields[i])

\* C28: the tolerance the minimum output is computed with is the
\* SLIPPAGE_TOLERANCE setting whenever that is set to a number, 0 included, and
\* the default of 5 percent only when the setting is absent; with a setting of
\* 0 the minimum output is the expected output itself.
C28_SlippageSettingIsUsed ==
  (fnCall.fn = "configuredMinOutput" /\ pc = "done") =>
    LET env == fnCall.args[1]
        E == fnCall.args[2]
        S == IF env = Unset THEN 5 * 1000 ELSE env
    IN  /\ fnCall.value.slippageTolerance = S
        /\ fnCall.value.minAmountOut = E - (E * (S \div 10)) \div 10000

\* ----------------------------------------------------------- createProvider
\* part_000:391-399
ChainIdMismatchError(chainId) ==
  ValidationError(IF chainId = 1 THEN "Invalid network. Expected Base (8453), got 1"
                                 ELSE "Invalid network. Expected Base (8453), got another",
                  NETWORK_MISMATCH, [expected |-> BASE_CHAIN_ID, received |-> chainId])

\* The error an endpoint that cannot be reached rejects getNetwork() with.
EndpointUnreachableError == Err("Error", NoCode, "getaddrinfo ENOTFOUND", <<>>)

\* What getNetwork() on one endpoint does: it resolves with a chain id or
\* rejects, after some time, or it never settles.
EndpointAnswers ==
  {[settles |-> "resolves", chainId |-> c, latency |-> l] :
     c \in {BASE_CHAIN_ID, 1}, l \in ConfirmationLatencies(CONNECTION_TIMEOUT_MS)}
  \cup {[settles |-> "rejects", chainId |-> 0, latency |-> l] :
          l \in ConfirmationLatencies(CONNECTION_TIMEOUT_MS)}
  \cup {[settles |-> "never", chainId |-> 0, latency |-> NeverSettles]}

\* ConnectFailed that gives up at the first endpoint that fails.
ConnectFailed_GiveUp(attempt, e) ==
  /\ rpc' = [rpc EXCEPT !.attempts = Append(@, attempt), !.lastError = e]
  /\ Throw(RpcConnectionFailedError(Len(RpcUrls), e))

\* blockchain.js:72-77: the catch block keeps the error and the loop goes on
\* with the next URL.
ConnectFailed(attempt, e) ==
  /\ rpc' = [rpc EXCEPT !.attempts = Append(@, attempt), !.lastError = e, !.i = @ + 1]
  /\ UNCHANGED <<pc, error>>

\* What no step of createProvider assigns.
providerFrame == <<kind, slippageTolerance, amountUsd, amountIn, wethBalance, ethBalance, idx,
                   probes, bestQuote, minAmountOut, allowance, retry, submissions, approval,
                   swap, swapLatency, result, outcome, maxGasPrice, ethPrice, gasPrice,
                   dryRun, fnCall, overlap>>

ProviderInit ==
  /\ kind = "BUY"
  /\ pc = "rpc_try"
  /\ gasPrice = MAX_GAS_PRICE_GWEI
  /\ dryRun = NoDryRun
  /\ rpc = NoRpc
  /\ overlap = NoOverlap
  /\ fnCall = NoCall
  /\ FlowNotStarted

\* blockchain.js:50-77: one iteration of the loop over rpcUrls, the race between
\* getNetwork() and the timer, then validateChainId.
ProviderTryUrl ==
  /\ pc = "rpc_try"
  /\ rpc.i <= Len(RpcUrls)
  /\ \E a \in EndpointAnswers, timerFirst \in BOOLEAN :
       LET attempt == [url |-> RpcUrls[rpc.i], answer |-> a, timerFirst |-> timerFirst]
       IN  /\ IF timerFirst THEN TimerWins(a.latency, CONNECTION_TIMEOUT_MS)
                            ELSE WaitWins(a.latency, CONNECTION_TIMEOUT_MS) /\ a.settles # "never"
           /\ IF timerFirst
                THEN ConnectFailed(attempt, ConnectionTimeoutError)
                ELSE IF a.settles = "rejects"
                  THEN ConnectFailed(attempt, EndpointUnreachableError)
                  ELSE IF a.chainId # BASE_CHAIN_ID
                    THEN ConnectFailed(attempt, ChainIdMismatchError(a.chainId))
                    ELSE /\ rpc' = [rpc EXCEPT !.attempts = Append(@, attempt),
                                               !.provider = RpcUrls[rpc.i]]
                         /\ pc' = "rpc_returned"
                         /\ error' = error
  /\ UNCHANGED providerFrame

\* blockchain.js:80-84: every URL has failed.
ProviderAllFailed ==
  /\ pc = "rpc_try"
  /\ rpc.i > Len(RpcUrls)
  /\ Throw(RpcConnectionFailedError(Len(RpcUrls), rpc.lastError))
  /\ rpc' = rpc
  /\ UNCHANGED providerFrame

ProviderNext ==
  \/ ProviderTryUrl
  \/ ProviderAllFailed

ProviderSpec == ProviderInit /\ [][ProviderNext]_vars

\* An endpoint's getNetwork() settled before the timer fired, and one whose
\* timer fired first or that never settled.
AnsweredInTime(attempt) ==
  /\ ~attempt.timerFirst
  /\ attempt.answer.settles # "never"
  /\ attempt.answer.latency <= 10000
TimedOut(attempt) ==
  /\ attempt.timerFirst
  /\ attempt.answer.settles = "never" \/ attempt.answer.latency >= 10000

\* Why an endpoint was passed over: the timer, a rejection, or a wrong chain id.
EndpointFailed(attempt) ==
  \/ TimedOut(attempt)
  \/ AnsweredInTime(attempt) /\ attempt.answer.settles = "rejects"
  \/ AnsweredInTime(attempt) /\ attempt.answer.settles = "resolves"
       /\ attempt.answer.chainId # 8453

\* The message of the error an endpoint failed with.
FailureMessage(attempt) ==
  IF attempt.timerFirst
    THEN "Connection timeout"
    ELSE IF attempt.answer.settles = "rejects"
      THEN "getaddrinfo ENOTFOUND"
      ELSE ChainIdMismatchError(attempt.answer.chainId).message

\* C29: the endpoints are tried in the order primary URL, then the fallbacks as
\* configured; the provider returned is the first endpoint that answered within
\* 10 s with the Base chain id, every endpoint before it having timed out,
\* rejected or answered with another chain id; and the call fails, with
\* RPC_CONNECTION_FAILED carrying the last endpoint's error, only when all five
\* have failed.
C29_FirstWorkingEndpoint ==
  /\ Len(rpc.attempts) <= Len(RpcUrls)
  /\ \A k \in 1..Len(rpc.attempts) :
       /\ rpc.attempts[k].url = RpcUrls[k]
       /\ (k < Len(rpc.attempts) \/ pc # "rpc_returned") => EndpointFailed(rpc.attempts[k])
  /\ RpcUrls[1] = "RPC_URL"
  /\ pc = "rpc_returned" =>
       LET last == rpc.attempts[Len(rpc.attempts)]
       IN  /\ rpc.provider = last.url
           /\ AnsweredInTime(last)
           /\ last.answer.settles = "resolves"
           /\ last.answer.chainId = 8453
           /\ error = NoError
  /\ pc = "threw" =>
       /\ Len(rpc.attempts) = 5
       /\ error.code = RPC_CONNECTION_FAILED
       /\ error.details.attemptedUrls = 5
       /\ error.details.lastError = FailureMessage(rpc.attempts[5])

\* The fourth fallback is returned after the primary timed out, a fallback
\* answered with another chain id, one rejected and one never settled.
C29_Witness ==
  /\ pc = "rpc_returned"
  /\ rpc.provider = "https://1rpc.io/base"
  /\ Len(rpc.attempts) = 5
  /\ TimedOut(rpc.attempts[1])
  /\ rpc.attempts[2].answer.settles = "resolves" /\ ~rpc.attempts[2].timerFirst
  /\ rpc.attempts[3].answer.settles = "rejects" /\ ~rpc.attempts[3].timerFirst
  /\ rpc.attempts[4].answer.settles = "never"

\* C30: after a successful executeBuy every value the BUY entry point reports
\* in its outputs and its summary (tokens received, amount spent, transaction
\* hash, explorer URL, pool fee, gas used, block) is a property of the result,
\* so none of them is undefined.
C30_BuyReportsNoUndefined ==
  (kind = "BUY" /\ pc = "exited" /\ outcome.status = "Success") =>
    \A p \in DOMAIN outcome.reported : outcome.reported[p] # "undefined"

\* C31: once the swap transaction has been confirmed with success status the
\* invocation does not fail: no error is thrown by the steps after the
\* confirmation, and the run ends in Success.
C31_ConfirmedSwapEndsInSuccess ==
  swap = "confirmed" =>
    /\ pc # "threw"
    /\ pc = "exited" => (outcome.status = "Success" /\ outcome.exit = 0)

\* C32: for every slippage tolerance the configuration validation lets through
\* and every expected output E > 0, the minimum output computed for the swap is
\* at least 0 and at most E.
C32_MinOutputWithinBounds ==
  (fnCall.fn = "configuredMinOutput" /\ pc = "done" /\ fnCall.args[2] > 0) =>
    /\ fnCall.value.minAmountOut >= 0
    /\ fnCall.value.minAmountOut <= fnCall.args[2]

\* ------------------------------------------------- two invocations at once
\* Two invocations of buy.js run by the same wallet overlap from approveToken
\* on: both spend WETH through the router, so they share allowance(wallet,
\* router) on the chain.  overlap.routerAllowance is that allowance, overlap.inv
\* each invocation's position and locals, overlap.swaps the swap transactions
\* sent, each with the allowance on the chain at the moment it was sent.

\* The largest input amount of an invocation, in wei at a small scale.
MaxOverlapAmount == 2
Invocations == {1, 2}
\* wethAmountWei of each invocation, and the allowance the chain starts with.
OverlapAmounts == 1..MaxOverlapAmount
OverlapAllowances == 0..MaxOverlapAmount

\* trading.js:199-205: an invocation entering approveToken with wethAmountWei.
AtApproveToken(amount) ==
  [pc |-> "approve_read", amount |-> amount, currentAllowance |-> NotRead,
   attempt |-> 1, error |-> NoError]

\* What the node rejects estimateGas with when the router's transferFrom of the
\* input token would fail.
TransferFromRevert == Err("Error", NoCode, "Execution Reverted: STF", <<>>)
\* A request the node did not answer.
RequestFailed == Err("Error", NoCode, "Network error: nonce low", <<>>)

overlapFrame == <<kind, pc, slippageTolerance, amountUsd, amountIn, wethBalance, ethBalance,
                  idx, probes, bestQuote, minAmountOut, allowance, retry, submissions,
                  approval, swap, swapLatency, error, result, outcome, maxGasPrice,
                  ethPrice, gasPrice, dryRun, rpc, fnCall>>

OverlapInit ==
  /\ kind = "BUY"
  /\ pc = "overlap"
  /\ gasPrice = MAX_GAS_PRICE_GWEI
  /\ dryRun = NoDryRun
  /\ rpc = NoRpc
  /\ fnCall = NoCall
  /\ FlowNotStarted
  /\ overlap \in {[routerAllowance |-> a,
                   inv |-> <<AtApproveToken(x), AtApproveToken(y)>>,
                   swaps |-> <<>>] :
                    a \in OverlapAllowances, x \in OverlapAmounts, y \in OverlapAmounts}

\* blockchain.js:287-315: what executeWithRetry does with invocation i when a
\* pass of fn rejected with r: throw r, run fn again from retryPc, or give up.
RetryAfter(i, operationName, r, retryPc) ==
  LET v == overlap.inv[i]
  IN  IF isNonRetryableError(r)
        THEN [v EXCEPT !.pc = "threw", !.error = r]
        ELSE IF v.attempt + 1 <= MAX_RETRY_ATTEMPTS
          THEN [v EXCEPT !.pc = retryPc, !.attempt = @ + 1]
          ELSE [v EXCEPT !.pc = "threw",
                         !.error = RetriesExhaustedError(operationName, r)]

\* blockchain.js:203-216: the allowance read and the decision to approve.
OverlapReadAllowance(i) ==
  LET v == overlap.inv[i]
  IN  /\ pc = "overlap"
      /\ v.pc = "approve_read"
      /\ overlap' = [overlap EXCEPT
           !.inv[i] = [v EXCEPT
             !.currentAllowance = overlap.routerAllowance,
             !.pc = IF AllowanceSufficient(overlap.routerAllowance, v.amount)
                      THEN "swap_estimate" ELSE "approve_send"]]
      /\ UNCHANGED overlapFrame

\* blockchain.js:216-225: one pass of the approval's fn, estimateGas and send.
OverlapApproveSend(i) ==
  LET v == overlap.inv[i]
  IN  /\ pc = "overlap"
      /\ v.pc = "approve_send"
      /\ \E r \in {NoError, RequestFailed} :
           overlap' = [overlap EXCEPT
             !.inv[i] = IF r = NoError
                          THEN [v EXCEPT !.pc = "approve_wait"]
                          ELSE RetryAfter(i, "Token approval", r, "approve_send")]
      /\ UNCHANGED overlapFrame

\* blockchain.js:229-240: the approval is mined and tx.wait() returns its
\* receipt.  approve(spender, amount) sets the allowance to amount.
OverlapApproveWait(i) ==
  LET v == overlap.inv[i]
  IN  /\ pc = "overlap"
      /\ v.pc = "approve_wait"
      /\ \E status \in {0, 1} :
           overlap' =
             IF ReceiptSucceeded(status)
               THEN [overlap EXCEPT !.routerAllowance = v.amount,
                                    !.inv[i] = [v EXCEPT !.pc = "swap_estimate",
                                                         !.attempt = 1]]
               ELSE [overlap EXCEPT !.inv[i] = [v EXCEPT !.pc = "threw",
                                                         !.error = ApprovalRevertedError]]
      /\ UNCHANGED overlapFrame

\* trading.js:222-225: estimateGas of the swap, which the node runs against the
\* chain as it is: it reverts when the allowance does not cover amountIn.
OverlapSwapEstimate(i) ==
  LET v == overlap.inv[i]
  IN  /\ pc = "overlap"
      /\ v.pc = "swap_estimate"
      /\ \E r \in IF overlap.routerAllowance >= v.amount
                    THEN {NoError, RequestFailed} ELSE {TransferFromRevert} :
           overlap' = [overlap EXCEPT
             !.inv[i] = IF r = NoError
                          THEN [v EXCEPT !.pc = "swap_send"]
                          ELSE RetryAfter(i, "Buy swap", r, "swap_estimate")]
      /\ UNCHANGED overlapFrame

\* trading.js:227-231: the swap is sent with the gas limit estimated.
OverlapSwapSend(i) ==
  LET v == overlap.inv[i]
  IN  /\ pc = "overlap"
      /\ v.pc = "swap_send"
      /\ \E r \in {NoError, RequestFailed} :
           overlap' =
             IF r = NoError
               THEN [overlap EXCEPT
                       !.swaps = Append(@, [inv |-> i, amountIn |-> v.amount,
                                            allowance |-> overlap.routerAllowance]),
                       !.inv[i] = [v EXCEPT !.pc = "swap_wait"]]
               ELSE [overlap EXCEPT
                       !.inv[i] = RetryAfter(i, "Buy swap", r, "swap_estimate")]
      /\ UNCHANGED overlapFrame

\* trading.js:244: the swap is mined and its receipt returned.  The router
\* takes amountIn from the wallet with transferFrom, which uses up that much
\* of the allowance and fails when the allowance is smaller.
OverlapSwapWait(i) ==
  LET v == overlap.inv[i]
  IN  /\ pc = "overlap"
      /\ v.pc = "swap_wait"
      /\ \E status \in IF overlap.routerAllowance >= v.amount THEN {0, 1} ELSE {0} :
           overlap' =
             IF ReceiptSucceeded(status)
               THEN [overlap EXCEPT !.routerAllowance = @ - v.amount,
                                    !.inv[i] = [v EXCEPT !.pc = "done"]]
               ELSE [overlap EXCEPT
                       !.inv[i] = [v EXCEPT !.pc = "threw",
                                            !.error = TransactionRevertedError(status)]]
      /\ UNCHANGED overlapFrame

OverlapNext ==
  \/ \E i \in Invocations : OverlapReadAllowance(i)
  \/ \E i \in Invocations : OverlapApproveSend(i)
  \/ \E i \in Invocations : OverlapApproveWait(i)
  \/ \E i \in Invocations : OverlapSwapEstimate(i)
  \/ \E i \in Invocations : OverlapSwapSend(i)
  \/ \E i \in Invocations : OverlapSwapWait(i)

OverlapSpec == OverlapInit /\ [][OverlapNext]_vars

\* C33: with two invocations spending the same input token at once, every swap
\* is sent while the router's allowance from the wallet is at least the input
\* amount of the invocation sending it.
C33_SwapSentUnderAllowance ==
  \A k \in 1..Len(overlap.swaps) :
    overlap.swaps[k].allowance >= overlap.swaps[k].amountIn

\* C34: whatever the probes of the fee tiers do, the dry run's quote selection
\* and findBestPoolFee agree: one finds no liquidity exactly when the other
\* does, and otherwise they select the same fee tier and output amount.
C34_DryRunSelectsAsFindBestPoolFee ==
  (fnCall.fn = "selectQuote" /\ pc = "done") =>
    /\ fnCall.value.dryRun.noLiquidity = fnCall.value.findBestPoolFee.noLiquidity
    /\ fnCall.value.dryRun.quote = fnCall.value.findBestPoolFee.quote

====
